---------------------------- MODULE Spec2Model ----------------------------
(***************************************************************************)
(* Model of the COW movement prediction core:                              *)
(*   - the three prediction models of src/IMPLEMENTATION_COMPLETE.md       *)
(*     (KNNNextLocationModel, LinearRegressionOptimalStayModel,            *)
(*     KMeansClusteringModel), one model object per behaviour, its class   *)
(*     fixed at construction (modelType);                                  *)
(*   - the FeatureEngineer of src/ml/featureEngineering.ts.                *)
(*                                                                         *)
(* Numbers.  JavaScript numbers are IEEE doubles.  Here                    *)
(*   - raw feature values and labels are integers;                         *)
(*   - a KNN distance Math.sqrt(n) is kept as its radicand n, a k-means    *)
(*     centroid coordinate and distance radicand as an exact fraction;     *)
(*   - the regression model and the scaler compute in fixed point, one     *)
(*     unit = 1/Scale, quotients rounded to the nearest unit;              *)
(*   - NaN and undefined are explicit values (JS records).                 *)
(***************************************************************************)
EXTENDS Integers, Sequences, FiniteSets, TLC

VARIABLES
    modelType,          \* class of the model object: "classification" | "regression" | "clustering"
    isTrainedAndReady,  \* MLModel.isTrainedAndReady
    hyperparameters,    \* MLModel.hyperparameters
    trainingData,       \* KNNNextLocationModel.trainingData
    locations,          \* KNNNextLocationModel.locations
    coefficients,       \* LinearRegressionOptimalStayModel.coefficients
    intercept,          \* LinearRegressionOptimalStayModel.intercept
    featureMeans,       \* LinearRegressionOptimalStayModel.featureMeans
    featureStds,        \* LinearRegressionOptimalStayModel.featureStds
    numClusters,        \* KMeansClusteringModel.numClusters
    centroids,          \* KMeansClusteringModel.centroids
    assignments,        \* KMeansClusteringModel.assignments (insertion-ordered Map)
    blob,               \* the string last returned by encode(), as the parsed JSON document
    encoded,            \* history: the model object as it was when blob was encoded
    everFitted,         \* history: a train with non-empty data or a decode has run on this object
    fittedOn,           \* history: the data set of the last train with non-empty data on this
                        \* object, if no decode came after it
    call,               \* history: the last call made on the model object
    lastPredict,        \* history: a predict call made since the model's state was last written
    featureScaleMap,    \* FeatureEngineer.featureScaleMap: name -> [min, max]
    featureMeanMap,     \* FeatureEngineer.featureMeanMap: name -> mean
    featureStdMap,      \* FeatureEngineer.featureStdMap: name -> std
    feCall,             \* history: the last call made on the FeatureEngineer, its arguments
                        \* as they are after the call, and its result
    dpCall,             \* history: the last call made on the DataPreparationPipeline
    cache,              \* RealtimePredictionService: the memoized recommendations, by key
    clock,              \* the time now, in minutes
    rtCall              \* history: the last call made on the RealtimePredictionService

modelVars == <<modelType, isTrainedAndReady, hyperparameters, trainingData, locations,
               coefficients, intercept, featureMeans, featureStds,
               numClusters, centroids, assignments>>

historyVars == <<blob, encoded, everFitted, fittedOn, call, lastPredict>>

feVars == <<featureScaleMap, featureMeanMap, featureStdMap, feCall>>

pipelineVars == <<dpCall>>

serviceVars == <<cache, clock, rtCall>>

vars == <<modelVars, historyVars, feVars, pipelineVars, serviceVars>>

-----------------------------------------------------------------------------
(* Arithmetic helpers *)

Abs(x) == IF x < 0 THEN -x ELSE x

Min2(a, b) == IF a < b THEN a ELSE b

Max2(a, b) == IF a > b THEN a ELSE b

RECURSIVE SumSeq(_)
SumSeq(s) == IF s = <<>> THEN 0 ELSE SumSeq(SubSeq(s, 1, Len(s) - 1)) + s[Len(s)]

\* The array <<F(1), ..., F(n)>>, every element computed when it is built
RECURSIVE TupleOf(_, _)
TupleOf(f, n) == IF n <= 0 THEN <<>> ELSE Append(TupleOf(f, n - 1), f[n])

Tabulate(count, F(_)) == TupleOf([tabIdx \in 1..count |-> F(tabIdx)], count)

\* Array.prototype.map over the indices of an array
MapIdx(s, F(_, _)) == LET at(i) == F(s[i], i) IN Tabulate(Len(s), at)

\* The "no value" used for an absent blob / absent history entry
None == [none |-> TRUE]

-----------------------------------------------------------------------------
(* Inputs: query feature vectors.  A FeatureVector is                      *)
(* [cowId, features, timestamp, metadata: [currentLocation, currentIdleDays]]; *)
(* an absent metadata field is "" / 0, which JavaScript's || treats like   *)
(* undefined.                                                              *)

FV(id, f, loc, idle) ==
    [cowId |-> id, features |-> f, timestamp |-> [type |-> "Date", time |-> 1],
     metadata |-> [currentLocation |-> loc, currentIdleDays |-> idle]]

\* JSON.parse(JSON.stringify(fv)): the Date comes back as a string
JSONFeatureVector(fv) == [fv EXCEPT !.timestamp = [type |-> "string", time |-> @.time]]

\* Largest query feature value (the "extreme" feature vector)
MaxFeature == 100

\* The query vectors tried: all-zero, extreme, shorter and longer
\* than the two features the larger training sets have
Queries ==
    { FV("COW2", <<0, 0>>, "", 0),
      FV("COW3", <<0 - MaxFeature, MaxFeature>>, "WH2", 30),
      FV("COW4", <<2>>, "", 3),
      FV("COW5", <<1, 2, 3>>, "WH1", 8) }

\* The topK arguments tried (3 is the default of predict)
TopKs == {1, 3}

-----------------------------------------------------------------------------
(* KNNNextLocationModel *)

KSample(id, f, next) ==
    [cowId |-> id, features |-> FV(id, f, "", 0), nextLocation |-> next]

\* Training sets for the classifier, by name.  KD_AB is five neighbours of
\* which three moved to A and two to B, with ties in distance;
\* KD_TWO has fewer samples than k and one feature.
KNNDatasets ==
    [ KD_EMPTY |-> <<>>,
      KD_AB    |-> << KSample("COW1", <<1, 1>>, "A"), KSample("COW2", <<1, 2>>, "B"),
                      KSample("COW3", <<2, 1>>, "A"), KSample("COW4", <<0, 1>>, "B"),
                      KSample("COW5", <<1, 0>>, "A") >>,
      KD_TWO   |-> << KSample("COW1", <<5>>, "B"), KSample("COW2", <<7>>, "A") >> ]

KNNDatasetNames == DOMAIN KNNDatasets

\* hyperparameters = { k: 5, distance: "euclidean" }
KNNDefaultK == 5

KNNDefaultHyperparameters == [k |-> KNNDefaultK, distance |-> "euclidean"]

\* The values of k a hyperparameter grid assigns
KNNGridKs == {3, 5}

\* Array.from(new Set(data.map(d => d.nextLocation))).sort(): the distinct
\* labels in ascending order (labels are compared as strings; the labels
\* used here are single capital letters, ordered as in LabelOrder)
LabelOrder == <<"A", "B", "C">>

KNNLocations(data) ==
    LET present == { data[i].nextLocation : i \in 1..Len(data) }
        keep(l) == l \in present
    IN  SelectSeq(LabelOrder, keep)

\* euclideanDistance(a, b) = Math.sqrt(sum over the indices of a of
\* (a[i] - (b[i] || 0))^2); the result sqrt(n) is kept as its radicand n
KNNEuclideanDistance(a, b) ==
    LET term(val, i) == (val - (IF i <= Len(b) THEN b[i] ELSE 0)) * (val - (IF i <= Len(b) THEN b[i] ELSE 0))
    IN  SumSeq(MapIdx(a, term))

\* Array.prototype.sort((a, b) => a.distance - b.distance): stable, ascending
RECURSIVE SortByDistance(_)
SortByDistance(s) ==
    IF s = <<>> THEN <<>>
    ELSE LET init == SortByDistance(SubSeq(s, 1, Len(s) - 1))
             x == s[Len(s)]
             pos == Cardinality({ i \in 1..Len(init) : init[i].distance <= x.distance })
         IN  SubSeq(init, 1, pos) \o <<x>> \o SubSeq(init, pos + 1, Len(init))

\* Array.prototype.sort((a, b) => b.probability - a.probability): stable,
\* descending; all probabilities of one call have the same denominator k
RECURSIVE SortByProbabilityDesc(_)
SortByProbabilityDesc(s) ==
    IF s = <<>> THEN <<>>
    ELSE LET init == SortByProbabilityDesc(SubSeq(s, 1, Len(s) - 1))
             x == s[Len(s)]
             pos == Cardinality({ i \in 1..Len(init) :
                        init[i].probability.num * x.probability.den
                            >= x.probability.num * init[i].probability.den })
         IN  SubSeq(init, 1, pos) \o <<x>> \o SubSeq(init, pos + 1, Len(init))

\* Array.prototype.slice(0, n) for n >= 0
Slice0(s, n) == SubSeq(s, 1, Min2(n, Len(s)))

\* Variant of KNNNeighbors: the first k samples as stored, whatever their
\* distance.  C4 does not hold of it.
KNNNeighborsFirstK(data, k, q) ==
    LET first == Slice0(data, k)
    IN  [i \in 1..Len(first) |-> first[i]]

\* The k nearest neighbours of the query: sort by distance, slice(0, k)
KNNNeighbors(data, k, q) ==
    LET distances == [i \in 1..Len(data) |->
                        [sample |-> data[i],
                         distance |-> KNNEuclideanDistance(q.features, data[i].features.features)]]
        nearest == Slice0(SortByDistance(distances), k)
    IN  [i \in 1..Len(nearest) |-> nearest[i].sample]

\* The Map locationFreq: its keys in insertion order (first occurrence among
\* the neighbours) and the count of each
RECURSIVE LocationKeys(_)
LocationKeys(neighbors) ==
    IF neighbors = <<>> THEN <<>>
    ELSE LET init == LocationKeys(SubSeq(neighbors, 1, Len(neighbors) - 1))
             l == neighbors[Len(neighbors)].nextLocation
         IN  IF \E i \in 1..Len(init) : init[i] = l THEN init ELSE Append(init, l)

LocationCount(neighbors, l) ==
    Cardinality({ i \in 1..Len(neighbors) : neighbors[i].nextLocation = l })

\* `${count} of ${k} nearest neighbors moved to ${location}`
KNNReasoning(count, k, location) ==
    ToString(count) \o " of " \o ToString(k) \o " nearest neighbors moved to " \o location

\* features.metadata?.currentLocation || features.cowId
KNNResultCowId(q) ==
    IF q.metadata.currentLocation # "" THEN q.metadata.currentLocation ELSE q.cowId

\* KNNNextLocationModel.predict(features, topK): the returned list
KNNPredict(ready, data, hp, q, topK) ==
    IF ~ready \/ Len(data) = 0 THEN <<>>
    ELSE LET k == IF hp.k # 0 THEN hp.k ELSE KNNDefaultK
             neighbors == KNNNeighbors(data, k, q)
             keys == LocationKeys(neighbors)
             all == [i \in 1..Len(keys) |->
                        [location |-> keys[i],
                         probability |-> [num |-> LocationCount(neighbors, keys[i]), den |-> k],
                         confidence |-> [num |-> LocationCount(neighbors, keys[i]), den |-> k],
                         reasoning |-> KNNReasoning(LocationCount(neighbors, keys[i]), k, keys[i])]]
             predictions == Slice0(SortByProbabilityDesc(all), topK)
             topRecommendation ==
                 IF Len(predictions) > 0
                 THEN [location |-> predictions[1].location,
                       probability |-> predictions[1].probability,
                       rationale |-> predictions[1].reasoning]
                 ELSE [location |-> "Unknown", probability |-> [num |-> 0, den |-> 1],
                       rationale |-> "No predictions available"]
         IN  << [cowId |-> KNNResultCowId(q),
                 predictions |-> predictions,
                 topRecommendation |-> topRecommendation,
                 alternativeOptions |-> SubSeq(predictions, 2, Len(predictions)),
                 timestamp |-> q.timestamp] >>

\* KNNNextLocationModel.encode(): JSON.stringify of the three fields
KNNEncode(data, locs, hp) ==
    LET json(i) == [data[i] EXCEPT !.features = JSONFeatureVector(@)]
    IN  [trainingData |-> Tabulate(Len(data), json), locations |-> locs, hyperparameters |-> hp]

-----------------------------------------------------------------------------
(* Fixed-point and JavaScript number semantics used by the regression model *)
(* and the scaler                                                           *)

\* Units per 1.0
Scale == 10 * 10 * 10

\* a / b for b > 0, rounded to the nearest unit
RoundDiv(a, b) == (a + (b \div 2)) \div b

\* Math.sqrt of a fixed-point number x >= 0: the largest r with r*r <= x*Scale
RECURSIVE SqrtSearch(_, _, _)
SqrtSearch(n, lo, hi) ==
    IF lo >= hi THEN lo
    ELSE LET mid == (lo + hi + 1) \div 2
         IN  IF mid * mid <= n THEN SqrtSearch(n, mid, hi) ELSE SqrtSearch(n, lo, mid - 1)

\* 46340 is the largest integer whose square is below 2^31
SqrtFP(x) == SqrtSearch(x * Scale, 0, Min2(x * Scale, 46340))

JSNum(x) == [t |-> "number", v |-> x]

JSNaN == [t |-> "NaN", v |-> 0]

JSUndefined == [t |-> "undefined", v |-> 0]

IsNumber(a) == a.t = "number"

\* arr[i] for a 0-based index i: undefined outside the array
JSAt(arr, i) == IF i + 1 \in 1..Len(arr) THEN JSNum(arr[i + 1]) ELSE JSUndefined

JSAdd(a, b) == IF IsNumber(a) /\ IsNumber(b) THEN JSNum(a.v + b.v) ELSE JSNaN

JSSub(a, b) == IF IsNumber(a) /\ IsNumber(b) THEN JSNum(a.v - b.v) ELSE JSNaN

\* a * b and a / b on fixed-point operands (b is never 0: no stored
\* standard deviation is 0)
JSMul(a, b) == IF IsNumber(a) /\ IsNumber(b) THEN JSNum(RoundDiv(a.v * b.v, Scale)) ELSE JSNaN

JSDiv(a, b) == IF IsNumber(a) /\ IsNumber(b) THEN JSNum(RoundDiv(a.v * Scale, b.v)) ELSE JSNaN

\* x || 0: undefined, NaN and 0 are falsy
JSOr0(a) == IF IsNumber(a) /\ a.v # 0 THEN a ELSE JSNum(0)

\* Math.min / Math.max: NaN if an argument is NaN
JSMin(a, b) == IF IsNumber(a) /\ IsNumber(b) THEN JSNum(Min2(a.v, b.v)) ELSE JSNaN

JSMax(a, b) == IF IsNumber(a) /\ IsNumber(b) THEN JSNum(Max2(a.v, b.v)) ELSE JSNaN

RECURSIVE JSSum(_)
JSSum(s) == IF s = <<>> THEN JSNum(0) ELSE JSAdd(JSSum(SubSeq(s, 1, Len(s) - 1)), s[Len(s)])

\* Number.prototype.toFixed(1) of a non-negative fixed-point number
ToFixed1(a) ==
    IF ~IsNumber(a) THEN "NaN"
    ELSE LET tenths == RoundDiv(a.v * 10, Scale)
         IN  ToString(tenths \div 10) \o "." \o ToString(tenths % 10)

-----------------------------------------------------------------------------
(* LinearRegressionOptimalStayModel *)

RSample(id, f, days) ==
    [cowId |-> id, features |-> FV(id, f, "", 0), actualStayDays |-> days]

\* Training sets for the regressor, by name (labels in days)
RegDatasets ==
    [ RD_EMPTY |-> <<>>,
      RD_LINE  |-> << RSample("COW1", <<1, 0>>, 5), RSample("COW1", <<2, 1>>, 10),
                      RSample("COW1", <<3, 0>>, 15) >>,
      RD_FLAT  |-> << RSample("COW2", <<4, 2>>, 30), RSample("COW2", <<4, 6>>, 90) >>,
      RD_ONE   |-> << RSample("COW3", <<7>>, 12) >> ]

RegDatasetNames == DOMAIN RegDatasets

\* hyperparameters = { learningRate: 0.01, iterations: 100 }
RegDefaultIterations == 100

RegDefaultHyperparameters == [learningRate |-> Scale \div 100, iterations |-> RegDefaultIterations]

\* The hyperparameter combinations a search assigns
RegGrid == { RegDefaultHyperparameters, [learningRate |-> Scale \div 10, iterations |-> 10] }

\* for (let iter = 0; iter < 100; iter++)
FitIterations == 100

\* const learningRate = 0.001
FitLearningRate == Scale \div 1000

\* One pass of the loop body of simpleLinearFit: the gradient over all rows,
\* then the update of every coefficient
FitStep(X, y, coefs) ==
    LET pred(i) == LET term(j) == coefs[j] * X[i][j]
                   IN  RoundDiv(SumSeq(Tabulate(Len(coefs), term)), Scale)
        rowError(i) == pred(i) - y[i]
        error == Tabulate(Len(X), rowError)
        gradient(j) == LET term(i) == error[i] * X[i][j]
                       IN  RoundDiv(SumSeq(Tabulate(Len(X), term)), Scale)
        updated(j) == coefs[j] - RoundDiv(FitLearningRate * gradient(j), Scale * Len(X))
    IN  Tabulate(Len(coefs), updated)

\* `passes` passes of the loop of simpleLinearFit, starting from coefs.  A run
\* of passes is the run of its first half followed by the run of its second
\* half; the intermediate result is bound as a value (half), which keeps the
\* evaluation shallow and computes every pass once.
RECURSIVE FitLoop(_, _, _, _)
FitLoop(X, y, coefs, passes) ==
    IF passes <= 0 THEN coefs
    ELSE IF passes = 1 THEN FitStep(X, y, coefs)
    ELSE CHOOSE result \in { FitLoop(X, y, half, passes - (passes \div 2)) :
                                half \in { FitLoop(X, y, coefs, passes \div 2) } } : TRUE

\* simpleLinearFit(X, y): gradient descent from all-zero coefficients
simpleLinearFit(X, y) == LET zero(j) == 0 IN FitLoop(X, y, Tabulate(Len(X[1]), zero), FitIterations)

\* The state LinearRegressionOptimalStayModel.train(data) writes for a
\* non-empty data: means, standard deviations, coefficients, intercept
RegTrain(data) ==
    LET featureCount == Len(data[1].features.features)
        n == Len(data)
        value(r, i) == data[r].features.features[i] * Scale
        mean(i) == LET v(r) == value(r, i) IN RoundDiv(SumSeq(Tabulate(n, v)), n)
        means == Tabulate(featureCount, mean)
        variance(i) == LET sq(r) == RoundDiv((value(r, i) - means[i]) * (value(r, i) - means[i]), Scale)
                       IN  RoundDiv(SumSeq(Tabulate(n, sq)), n)
        std(i) == IF SqrtFP(variance(i)) # 0 THEN SqrtFP(variance(i)) ELSE Scale
        stds == Tabulate(featureCount, std)
        row(r) == LET x(i) == RoundDiv((value(r, i) - means[i]) * Scale, stds[i])
                  IN  Tabulate(featureCount, x)
        X == Tabulate(n, row)
        label(r) == data[r].actualStayDays * Scale
        y == Tabulate(n, label)
        biased(r) == <<Scale>> \o X[r]
        XWithBias == Tabulate(n, biased)
        fit == simpleLinearFit(XWithBias, y)
    IN  [featureMeans |-> means, featureStds |-> stds,
         coefficients |-> fit, intercept |-> fit[1]]

\* train is a function of its data: the fits of all the training sets,
\* computed once
RegFits == { [name |-> name, fit |-> RegTrain(RegDatasets[name])] : name \in RegDatasetNames \ {"RD_EMPTY"} }

RegFitOf(name) == (CHOOSE e \in RegFits : e.name = name).fit

\* Math.max(1, Math.min(90, prediction))
MinStayDays == 1

MaxStayDays == 90

Clamp(prediction) == JSMax(JSNum(MinStayDays * Scale), JSMin(JSNum(MaxStayDays * Scale), prediction))

\* LinearRegressionOptimalStayModel.predict(features) past the check of
\* isTrainedAndReady
RegPredictReady(coefs, icpt, means, stds, q) ==
         LET f == q.features
             normalizedFeatures == [i \in 1..Len(f) |->
                 JSDiv(JSSub(JSNum(f[i] * Scale), JSAt(means, i - 1)), JSAt(stds, i - 1))]
             prediction == JSAdd(JSNum(icpt),
                 JSSum([i \in 1..Len(f) |-> JSMul(normalizedFeatures[i], JSOr0(JSAt(coefs, i)))]))
             clampedPrediction == Clamp(prediction)
             currentIdle == q.metadata.currentIdleDays
             movementReadinessScore ==
                 JSMin(JSNum(Scale), JSDiv(JSNum(currentIdle * Scale), clampedPrediction))
         IN  [cowId |-> q.cowId,
              currentLocation |-> IF q.metadata.currentLocation # "" THEN q.metadata.currentLocation ELSE "Unknown",
              predictedStayDays |-> clampedPrediction,
              confidenceInterval |->
                  [lower |-> JSMax(JSNum(Scale), JSMul(clampedPrediction, JSNum((Scale * 8) \div 10))),
                   upper |-> JSMul(clampedPrediction, JSNum((Scale * 12) \div 10))],
              movementReadinessScore |-> movementReadinessScore,
              reasoning |-> "Based on historical patterns, expected stay is "
                              \o ToFixed1(clampedPrediction) \o " days. Currently idle for "
                              \o ToString(currentIdle) \o " days.",
              timestamp |-> q.timestamp]

\* Variant of RegPredict without the check of isTrainedAndReady.  C3 does
\* not hold of it.
RegPredictUnguarded(ready, coefs, icpt, means, stds, q) == RegPredictReady(coefs, icpt, means, stds, q)

\* Variant of RegPredict whose interval has no floor at one day
\* (lower: clampedPrediction * 0.8).  C20 as amended does not hold of it.
RegPredictWithoutFloor(ready, coefs, icpt, means, stds, q) ==
    IF ~ready
    THEN [cowId |-> q.cowId,
          currentLocation |-> IF q.metadata.currentLocation # "" THEN q.metadata.currentLocation ELSE "Unknown",
          predictedStayDays |-> JSNum(0),
          confidenceInterval |-> [lower |-> JSNum(0), upper |-> JSNum(0)],
          movementReadinessScore |-> JSNum(0),
          reasoning |-> "Model not trained",
          timestamp |-> q.timestamp]
    ELSE LET r == RegPredictReady(coefs, icpt, means, stds, q)
         IN  [r EXCEPT !.confidenceInterval.lower = JSMul(r.predictedStayDays, JSNum((Scale * 8) \div 10))]

\* LinearRegressionOptimalStayModel.predict(features)
RegPredict(ready, coefs, icpt, means, stds, q) ==
    IF ~ready
    THEN [cowId |-> q.cowId,
          currentLocation |-> IF q.metadata.currentLocation # "" THEN q.metadata.currentLocation ELSE "Unknown",
          predictedStayDays |-> JSNum(0),
          confidenceInterval |-> [lower |-> JSNum(0), upper |-> JSNum(0)],
          movementReadinessScore |-> JSNum(0),
          reasoning |-> "Model not trained",
          timestamp |-> q.timestamp]
    ELSE RegPredictReady(coefs, icpt, means, stds, q)

\* LinearRegressionOptimalStayModel.encode(): JSON.stringify of the four fields
RegEncode(coefs, icpt, means, stds) ==
    [coefficients |-> coefs, intercept |-> icpt, featureMeans |-> means, featureStds |-> stds]

-----------------------------------------------------------------------------
(* Exact fractions for the k-means model: [num, den] in lowest terms with   *)
(* den > 0; [num |-> 1, den |-> 0] is Infinity.                             *)

RECURSIVE GCD(_, _)
GCD(a, b) == IF b = 0 THEN a ELSE GCD(b, a % b)

Rat(n, d) ==
    LET g == GCD(Abs(n), Abs(d))
    IN  IF n = 0 THEN [num |-> 0, den |-> 1]
        ELSE IF d < 0 THEN [num |-> (0 - n) \div g, den |-> (0 - d) \div g]
        ELSE [num |-> n \div g, den |-> d \div g]

RatInt(n) == [num |-> n, den |-> 1]

Infinity == [num |-> 1, den |-> 0]

RatAdd(a, b) == Rat(a.num * b.den + b.num * a.den, a.den * b.den)

RatSub(a, b) == Rat(a.num * b.den - b.num * a.den, a.den * b.den)

RatMul(a, b) == Rat(a.num * b.num, a.den * b.den)

\* a < b, also for b = Infinity
RatLess(a, b) == a.num * b.den < b.num * a.den

RECURSIVE RatSum(_)
RatSum(s) == IF s = <<>> THEN RatInt(0) ELSE RatAdd(RatSum(SubSeq(s, 1, Len(s) - 1)), s[Len(s)])

-----------------------------------------------------------------------------
(* KMeansClusteringModel *)

CSample(id, f) == [cowId |-> id, features |-> FV(id, f, "", 0)]

\* Training sets for the clusterer, by name
KMDatasets ==
    [ KM_EMPTY |-> <<>>,
      KM_LINE  |-> << CSample("COW1", <<0, 0>>), CSample("COW2", <<1, 0>>),
                      CSample("COW3", <<4, 0>>) >>,
      KM_PAIR  |-> << CSample("COW4", <<2, 2>>), CSample("COW5", <<6, 2>>) >> ]

KMDatasetNames == DOMAIN KMDatasets

\* hyperparameters = { k: 3, maxIterations: 100 }
KMDefaultK == 3

KMDefaultMaxIterations == 100

KMDefaultHyperparameters == [k |-> KMDefaultK, maxIterations |-> KMDefaultMaxIterations]

\* The hyperparameter combinations a search assigns
KMGrid == { KMDefaultHyperparameters, [k |-> 2, maxIterations |-> 1] }

\* Math.random() is drawn on a grid of RandomGrid values 0/RandomGrid ..
\* (RandomGrid-1)/RandomGrid; a run of train consumes one sequence of draws
RandomGrid == 6

RandomDraws == { <<0, 2, 4>>, <<3, 5, 5>> }

\* Math.floor(Math.random() * n) for the draw g / RandomGrid
RandomIndex(g, n) == (g * n) \div RandomGrid

\* euclideanDistance(a, b) with b a centroid's features: the radicand
KMEuclideanDistance(a, b) ==
    LET term(i) == LET d == RatSub(RatInt(a[i]), IF i <= Len(b) THEN b[i] ELSE RatInt(0))
                   IN  RatMul(d, d)
    IN  RatSum(Tabulate(Len(a), term))

\* Variant of NearestFrom that moves to a later centroid at equal distance
\* (distance <= minDistance).  C18 does not hold of it.
RECURSIVE NearestFromLastOnTies(_, _, _, _)
NearestFromLastOnTies(f, cents, c, best) ==
    IF c > Len(cents) THEN best
    ELSE LET distance == KMEuclideanDistance(f, cents[c].features)
         IN  IF ~RatLess(best.minDistance, distance)
             THEN NearestFromLastOnTies(f, cents, c + 1, [bestCluster |-> c - 1, minDistance |-> distance])
             ELSE NearestFromLastOnTies(f, cents, c + 1, best)

\* The loop over the centroids from index c on: [bestCluster, minDistance]
\* (clusters are numbered from 0)
RECURSIVE NearestFrom(_, _, _, _)
NearestFrom(f, cents, c, best) ==
    IF c > Len(cents) THEN best
    ELSE LET distance == KMEuclideanDistance(f, cents[c].features)
         IN  IF RatLess(distance, best.minDistance)
             THEN NearestFrom(f, cents, c + 1, [bestCluster |-> c - 1, minDistance |-> distance])
             ELSE NearestFrom(f, cents, c + 1, best)

Nearest(f, cents) == NearestFrom(f, cents, 1, [bestCluster |-> 0, minDistance |-> Infinity])

\* Map.prototype.set on an insertion-ordered Map kept as a list of entries
MapSet(m, key, value) ==
    IF \E i \in 1..Len(m) : m[i].key = key
    THEN LET entry(i) == IF m[i].key = key THEN [key |-> key, value |-> value] ELSE m[i]
         IN  Tabulate(Len(m), entry)
    ELSE Append(m, [key |-> key, value |-> value])

\* Map.prototype.get(key) || 0
MapGetOr0(m, key) ==
    IF \E i \in 1..Len(m) : m[i].key = key
    THEN (CHOOSE e \in { m[i] : i \in 1..Len(m) } : e.key = key).value
    ELSE 0

\* The assignment step: newAssignments after the loop over the samples
RECURSIVE KMAssign(_, _, _)
KMAssign(data, cents, upto) ==
    IF upto = 0 THEN <<>>
    ELSE MapSet(KMAssign(data, cents, upto - 1), data[upto].cowId,
                Nearest(data[upto].features.features, cents).bestCluster)

\* The update step: the centroid of cluster c (numbered from 0) becomes the
\* mean of the feature vectors pushed to clusters[c]; a centroid whose
\* cluster received none is kept
KMUpdate(data, cents, assigns) ==
    LET featureCount == Len(data[1].features.features)
        members(c) == { r \in 1..Len(data) : MapGetOr0(assigns, data[r].cowId) = c }
        mean(c, i) == LET pick(r) == IF r \in members(c) THEN data[r].features.features[i] ELSE 0
                      IN  Rat(SumSeq(Tabulate(Len(data), pick)), Cardinality(members(c)))
        updated(c) == IF members(c - 1) # {} /\ featureCount > 0
                      THEN LET coord(i) == mean(c - 1, i)
                           IN  [cents[c] EXCEPT !.features = Tabulate(featureCount, coord)]
                      ELSE cents[c]
    IN  Tabulate(Len(cents), updated)

\* One pass of the training loop
KMPass(data, st) ==
    LET newAssignments == KMAssign(data, st.centroids, Len(data))
    IN  [centroids |-> KMUpdate(data, st.centroids, newAssignments), assignments |-> newAssignments]

\* `passes` more passes from the state st.  A pass that leaves the state as
\* it found it is repeated unchanged by every later pass.
RECURSIVE KMLoop(_, _, _)
KMLoop(data, st, passes) ==
    IF passes <= 0 THEN st
    ELSE CHOOSE result \in { IF next = st THEN st ELSE KMLoop(data, next, passes - 1) :
                                next \in { KMPass(data, st) } } : TRUE

\* The centroids chosen at the start of train: data[i].features with the
\* cowId `centroid_${i}`, i = Math.floor(Math.random() * data.length)
KMInitialCentroids(data, k, draws) ==
    LET pickAt(j) == LET i == RandomIndex(draws[j], Len(data))
                         exact(x) == RatInt(data[i + 1].features.features[x])
                     IN  [data[i + 1].features EXCEPT
                             !.cowId = "centroid_" \o ToString(i),
                             !.features = Tabulate(Len(@), exact)]
    IN  Tabulate(Min2(k, Len(data)), pickAt)

\* The state KMeansClusteringModel.train(data) writes for a non-empty data
\* (the loop makes at least one pass, which replaces the old assignments)
KMTrain(data, hp, draws) ==
    LET k == IF hp.k # 0 THEN hp.k ELSE KMDefaultK
        maxIterations == IF hp.maxIterations # 0 THEN hp.maxIterations ELSE KMDefaultMaxIterations
    IN  KMLoop(data, [centroids |-> KMInitialCentroids(data, k, draws), assignments |-> <<>>],
               maxIterations)

\* train is a function of its data, the hyperparameters and the draws: the
\* fits of all the training sets, computed once
KMFits ==
    { [name |-> name, hp |-> hp, draws |-> draws, fit |-> KMTrain(KMDatasets[name], hp, draws)] :
          name \in KMDatasetNames \ {"KM_EMPTY"}, hp \in KMGrid, draws \in RandomDraws }

KMFitOf(name, hp, draws) ==
    (CHOOSE e \in KMFits : e.name = name /\ e.hp = hp /\ e.draws = draws).fit

\* 1 / (1 + Math.sqrt(radicand)) in fixed point, the distance taken to
\* 1/100; 0 for an infinite distance
KMSimilarity(radicand) ==
    IF radicand.den = 0 THEN 0
    ELSE LET d100 == SqrtSearch((radicand.num * 10000) \div radicand.den, 0, 46340)
         IN  RoundDiv(Scale * 100, 100 + d100)

\* KMeansClusteringModel.predict(features)
KMPredict(ready, cents, q) ==
    IF ~ready
    THEN [cowId |-> q.cowId, clusterId |-> 0, clusterName |-> "Unassigned",
          similarityScore |-> 0,
          clusterCharacteristics |-> [avgIdleDays |-> 0, mostCommonPath |-> "Unknown",
                                      preferredRegion |-> "Unknown", typicalStayDuration |-> 0],
          timestamp |-> q.timestamp]
    ELSE LET best == Nearest(q.features, cents)
             first == IF Len(q.features) > 0 THEN q.features[1] ELSE 0
         IN  [cowId |-> q.cowId, clusterId |-> best.bestCluster,
              clusterName |-> "Cluster_" \o ToString(best.bestCluster),
              similarityScore |-> KMSimilarity(best.minDistance),
              clusterCharacteristics |-> [avgIdleDays |-> first, mostCommonPath |-> "See cluster details",
                                          preferredRegion |-> "See cluster details",
                                          typicalStayDuration |-> first],
              timestamp |-> q.timestamp]

\* Variant of KMEncode that leaves the centroids out.  C7 does not hold of it.
KMEncodeNoCentroids(cents, assigns, nClusters) ==
    [centroids |-> <<>>, assignments |-> assigns, numClusters |-> nClusters]

\* KMeansClusteringModel.encode(): JSON.stringify of centroids, the entries
\* of assignments, and numClusters
KMEncode(cents, assigns, nClusters) ==
    LET json(c) == JSONFeatureVector(cents[c])
    IN  [centroids |-> Tabulate(Len(cents), json), assignments |-> assigns, numClusters |-> nClusters]

-----------------------------------------------------------------------------
(* FeatureEngineer (src/ml/featureEngineering.ts).  Feature values are in   *)
(* fixed point, one unit = 1/Scale.                                         *)

\* A MovementFeatures record (the fields the FeatureEngineer reads)
MV1 ==
    [cowId |-> "COW1", dayOfWeek |-> 1, monthOfYear |-> 3, quarter |-> 1, idleDays |-> 10,
     isWarehouse |-> TRUE, movementType |-> "Full", region |-> "North",
     movedDateTime |-> 3, toLocation |-> "WH1"]

MV2 ==
    [cowId |-> "COW1", dayOfWeek |-> 5, monthOfYear |-> 7, quarter |-> 3, idleDays |-> 0,
     isWarehouse |-> FALSE, movementType |-> "Half", region |-> "South",
     movedDateTime |-> 1, toLocation |-> "SITE2"]

MV3 ==
    [cowId |-> "COW1", dayOfWeek |-> 7, monthOfYear |-> 12, quarter |-> 4, idleDays |-> 25,
     isWarehouse |-> TRUE, movementType |-> "Other", region |-> "East",
     movedDateTime |-> 2, toLocation |-> "WH3"]

Movements == {MV1, MV2, MV3}

\* A CowAggregateFeatures record; movementConsistency is in units of 1/Scale,
\* favoriteRegions a Map region -> count
AG1 ==
    [cowId |-> "COW1", averageIdleDays |-> 5, totalMovements |-> 4, movementFrequencyPerMonth |-> 2,
     movementConsistency |-> Scale \div 2, stdDevIdleDays |-> 3, hasSeasonalPattern |-> TRUE,
     peakSeasonMonths |-> {3, 12}, lastMovementDaysAgo |-> 1,
     favoriteRegions |-> [r \in {"North"} |-> 3],
     totalStayDaysWarehouse |-> 30, totalStayDaysOffsite |-> 9, mostCommonToLocation |-> "WH1"]

AG0 ==
    [cowId |-> "COW2", averageIdleDays |-> 0, totalMovements |-> 0, movementFrequencyPerMonth |-> 0,
     movementConsistency |-> 0, stdDevIdleDays |-> 0, hasSeasonalPattern |-> FALSE,
     peakSeasonMonths |-> {}, lastMovementDaysAgo |-> 0,
     favoriteRegions |-> [r \in {} |-> 0],
     totalStayDaysWarehouse |-> 0, totalStayDaysOffsite |-> 0, mostCommonToLocation |-> ""]

Aggregates == {AG1, AG0}

\* Movement histories passed to createTimeSeriesFeatures: none, one, and
\* three movements that are not in chronological order
Histories == { <<>>, <<MV1>>, <<MV1, MV2, MV3>> }

\* The lookbackWindow arguments tried
Lookbacks == {1, 2, 4}

\* movementTypeEncoding[movement.movementType] || 0
MovementTypeEncoded(type) ==
    IF type = "Full" THEN Scale
    ELSE IF type = "Half" THEN Scale \div 2
    ELSE IF type = "Unknown" THEN Scale \div 4
    ELSE 0

\* movement.idleDays / (aggregateFeatures.averageIdleDays || 1)
IdleDaysVsAverage(movement, agg) ==
    RoundDiv(movement.idleDays * Scale, IF agg.averageIdleDays # 0 THEN agg.averageIdleDays ELSE 1)

\* The seventeen (name, value) pairs createMovementFeatureVector pushes
MovementFeaturePairs(movement, agg) ==
    << <<"dayOfWeek", movement.dayOfWeek * Scale>>,
       <<"monthOfYear", movement.monthOfYear * Scale>>,
       <<"quarter", movement.quarter * Scale>>,
       <<"avgHistoricalIdleDays", agg.averageIdleDays * Scale>>,
       <<"totalHistoricalMovements", agg.totalMovements * Scale>>,
       <<"movementFrequencyPerMonth", agg.movementFrequencyPerMonth * Scale>>,
       <<"currentIdleDays", movement.idleDays * Scale>>,
       <<"idleDaysVsAverage", IdleDaysVsAverage(movement, agg)>>,
       <<"isWarehouse", IF movement.isWarehouse THEN Scale ELSE 0>>,
       <<"movementTypeEncoded", MovementTypeEncoded(movement.movementType)>>,
       <<"movementConsistency", agg.movementConsistency>>,
       <<"stdDevIdleDays", agg.stdDevIdleDays * Scale>>,
       <<"hasSeasonalPattern", IF agg.hasSeasonalPattern THEN Scale ELSE 0>>,
       <<"isInPeakSeason", IF movement.monthOfYear \in agg.peakSeasonMonths THEN Scale ELSE 0>>,
       <<"lastMovementDaysAgo", agg.lastMovementDaysAgo * Scale>>,
       <<"regionAffinityScore",
         RoundDiv((IF movement.region \in DOMAIN agg.favoriteRegions
                   THEN agg.favoriteRegions[movement.region] ELSE 0) * Scale,
                  Max2(agg.totalMovements, 1))>>,
       <<"warehouseSpecialization",
         RoundDiv(agg.totalStayDaysWarehouse * Scale,
                  agg.totalStayDaysWarehouse + agg.totalStayDaysOffsite + 1)>> >>

\* The FeatureVector built from a list of (name, value) pairs pushed in step
VectorOfPairs(cow, pairs, time, meta) ==
    LET value(i) == pairs[i][2]
        name(i) == pairs[i][1]
    IN  [cowId |-> cow, features |-> Tabulate(Len(pairs), value),
         featureNames |-> Tabulate(Len(pairs), name), normalizedFeatures |-> <<>>,
         timestamp |-> time, metadata |-> meta]

\* FeatureEngineer.createMovementFeatureVector(movement, aggregateFeatures)
createMovementFeatureVector(movement, agg) ==
    VectorOfPairs(movement.cowId, MovementFeaturePairs(movement, agg), movement.movedDateTime,
                  [currentLocation |-> movement.toLocation, currentIdleDays |-> movement.idleDays,
                   isWarehouseNow |-> movement.isWarehouse])

\* FeatureEngineer.createInteractionFeatures(movement, aggregateFeatures)
createInteractionFeatures(movement, agg) ==
    LET baseVector == createMovementFeatureVector(movement, agg)
        wh == IF movement.isWarehouse THEN 1 ELSE 0
        added == << <<"idleDays_x_warehouse", movement.idleDays * wh * Scale>>,
                    <<"dayOfWeek_x_warehouse", RoundDiv(movement.dayOfWeek * wh * Scale, 7)>>,
                    <<"frequency_x_consistency", agg.movementFrequencyPerMonth * agg.movementConsistency>>,
                    <<"idleVsAvg_x_recency",
                      RoundDiv(IdleDaysVsAverage(movement, agg), agg.lastMovementDaysAgo + 1)>> >>
        value(i) == added[i][2]
        name(i) == added[i][1]
    IN  [baseVector EXCEPT !.features = @ \o Tabulate(Len(added), value),
                           !.featureNames = @ \o Tabulate(Len(added), name)]

\* Variant of SortByTime that leaves the movements in the order given.  C22
\* does not hold of it.
SortByTimeKeepingOrder(s) == s

\* Array.prototype.sort by movedDateTime (stable): insertion into the sorted
\* prefix after every element that is not later
RECURSIVE SortByTime(_)
SortByTime(s) ==
    IF s = <<>> THEN <<>>
    ELSE LET init == SortByTime(SubSeq(s, 1, Len(s) - 1))
             x == s[Len(s)]
             pos == Cardinality({ i \in 1..Len(init) : init[i].movedDateTime <= x.movedDateTime })
         IN  SubSeq(init, 1, pos) \o <<x>> \o SubSeq(init, pos + 1, Len(init))

\* FeatureEngineer.createTimeSeriesFeatures(movements, aggregateFeatures,
\* lookbackWindow): the returned vector, and the movements array as the
\* call leaves it (movements.sort sorts the caller's array in place)
createTimeSeriesFeatures(movements, agg, lookbackWindow) ==
    LET sorted == SortByTime(movements)
        recent == SubSeq(sorted, Max2(0, Len(sorted) - lookbackWindow) + 1, Len(sorted))
        slot(i) == LET n == ToString(i)
                   IN  IF i <= Len(recent)
                       THEN << <<"prev_" \o n \o "_idleDays", recent[i].idleDays * Scale>>,
                               <<"prev_" \o n \o "_isWarehouse", IF recent[i].isWarehouse THEN Scale ELSE 0>> >>
                       ELSE << <<"prev_" \o n \o "_idleDays_padded", agg.averageIdleDays * Scale>>,
                               <<"prev_" \o n \o "_isWarehouse_padded", 0>> >>
        pair(j) == slot((j + 1) \div 2)[2 - (j % 2)]
    IN  [vector |-> VectorOfPairs(agg.cowId, Tabulate(2 * lookbackWindow, pair), 0,
                                  [currentLocation |-> agg.mostCommonToLocation,
                                   currentIdleDays |-> agg.averageIdleDays, isWarehouseNow |-> TRUE]),
         movements |-> sorted]

\* A FeatureVector with the given names and values (in whole units)
NV(names, values) ==
    LET fixed(i) == values[i] * Scale
    IN  [cowId |-> "COW1", features |-> Tabulate(Len(values), fixed), featureNames |-> names,
         normalizedFeatures |-> <<>>, timestamp |-> 0,
         metadata |-> [currentLocation |-> "", currentIdleDays |-> 0, isWarehouseNow |-> FALSE]]

\* The corpora passed to fitScaler, by name: none; feature a constant and b
\* varying; a single vector; another feature name only; built vectors; the
\* second vector listing the names of the first in another order
Corpora ==
    [ SC_EMPTY |-> <<>>,
      SC_REORDER |-> << NV(<<"a", "b">>, <<1, 10>>), NV(<<"b", "a">>, <<20, 2>>) >>,
      SC_CONST |-> << NV(<<"a", "b">>, <<5, 3>>), NV(<<"a", "b">>, <<5, 7>>) >>,
      SC_ONE   |-> << NV(<<"a">>, <<4>>) >>,
      SC_OTHER |-> << NV(<<"c">>, <<1>>), NV(<<"c">>, <<3>>) >>,
      SC_MOVES |-> << createMovementFeatureVector(MV1, AG1), createMovementFeatureVector(MV2, AG1) >> ]

CorpusNames == DOMAIN Corpora

\* The vectors passed to normalizeMinMax and standardize
TransformInputs ==
    { NV(<<"a", "b">>, <<5, 5>>), NV(<<"a", "b">>, <<7, 1>>), NV(<<>>, <<9>>),
      createMovementFeatureVector(MV3, AG1) }

\* [...values].sort((a, b) => a - b)
RECURSIVE SortAscending(_)
SortAscending(values) ==
    IF values = <<>> THEN <<>>
    ELSE LET head == SortAscending(SubSeq(values, 1, Len(values) - 1))
             v == values[Len(values)]
             before == SelectSeq(head, LAMBDA x : x <= v)
             after == SelectSeq(head, LAMBDA x : x > v)
         IN  before \o <<v>> \o after

\* multiplier: number = 1.5
IQRDefaultMultiplier == (3 * Scale) \div 2

\* The samples passed to detectByIQR (whole numbers) and the multipliers
OutlierSamples ==
    { <<1, 2, 3, 100>>, <<100, 1, 2, 3, 4, 5, 6, 7>>, <<50, 51, 1, 52, 53, 54, 55, 56>>,
      <<4, 4, 4, 4>>, <<7>> }

Multipliers == { IQRDefaultMultiplier, 3 * Scale }

\* OutlierDetector.detectByIQR(values, multiplier); values has an element
detectByIQR(values, multiplier) ==
    LET sorted == SortAscending(values)
        q1 == sorted[(Len(sorted) \div 4) + 1]
        q3 == sorted[((Len(sorted) * 3) \div 4) + 1]
        iqr == q3 - q1
        lowerBound == q1 * Scale - multiplier * iqr
        upperBound == q3 * Scale + multiplier * iqr
        flag(i) == values[i] * Scale < lowerBound \/ values[i] * Scale > upperBound
    IN  Tabulate(Len(values), flag)

\* threshold: number = 3
ZScoreDefaultThreshold == 3

\* The thresholds passed to detectByZScore (whole numbers)
Thresholds == { ZScoreDefaultThreshold, 2 }

\* Variant of detectByZScore without Math.abs: a value below the mean is
\* never flagged.  C26 does not hold of it.
detectByZScoreAboveOnly(values, threshold) ==
    LET n == Len(values)
        total == SumSeq(values)
        deviation(i) == n * values[i] - total
        sq(i) == deviation(i) * deviation(i)
        squares == SumSeq(Tabulate(n, sq))
        flag(i) == IF squares = 0 THEN deviation(i) > threshold * n
                   ELSE deviation(i) > 0 /\ sq(i) * n > threshold * threshold * squares
    IN  Tabulate(n, flag)

\* OutlierDetector.detectByZScore(values, threshold) for whole numbers, in
\* exact arithmetic.  With mean = total / n and std = sqrt(squares / n) / n
\* for squares the sum of the (n * value - total)^2:
\* |value - mean| / (std || 1) > threshold is |n * value - total| > threshold * n
\* when std is 0, and (n * value - total)^2 * n > threshold^2 * squares otherwise
detectByZScore(values, threshold) ==
    LET n == Len(values)
        total == SumSeq(values)
        deviation(i) == n * values[i] - total
        sq(i) == deviation(i) * deviation(i)
        squares == SumSeq(Tabulate(n, sq))
        flag(i) == IF squares = 0 THEN Abs(deviation(i)) > threshold * n
                   ELSE sq(i) * n > threshold * threshold * squares
    IN  Tabulate(n, flag)

\* vector.featureNames[index] || `feature_${index}` (index counted from 0)
FeatureNameAt(vector, index) ==
    IF index < Len(vector.featureNames) /\ vector.featureNames[index + 1] # ""
    THEN vector.featureNames[index + 1]
    ELSE "feature_" \o ToString(index)

\* Map.prototype.set on a Map kept as a function
MapPut(m, key, value) == [k \in DOMAIN m \cup {key} |-> IF k = key THEN value ELSE m[k]]

RECURSIVE MinSeq(_)
MinSeq(s) == IF Len(s) = 1 THEN s[1] ELSE Min2(MinSeq(SubSeq(s, 1, Len(s) - 1)), s[Len(s)])

RECURSIVE MaxSeq(_)
MaxSeq(s) == IF Len(s) = 1 THEN s[1] ELSE Max2(MaxSeq(SubSeq(s, 1, Len(s) - 1)), s[Len(s)])

\* allFeatures.get(index): the values the vectors hold at index, in order
RECURSIVE ValuesAt(_, _)
ValuesAt(vectors, index) ==
    IF vectors = <<>> THEN <<>>
    ELSE LET init == ValuesAt(SubSeq(vectors, 1, Len(vectors) - 1), index)
             last == vectors[Len(vectors)]
         IN  IF index < Len(last.features) THEN Append(init, last.features[index + 1]) ELSE init

\* The statistics fitScaler computes from the values of one index
FeatureStats(values) ==
    LET mean == RoundDiv(SumSeq(values), Len(values))
        sq(i) == (values[i] - mean) * (values[i] - mean)
        variance == RoundDiv(SumSeq(Tabulate(Len(values), sq)), Len(values) * Scale)
    IN  [min |-> MinSeq(values), max |-> MaxSeq(values), mean |-> mean, std |-> SqrtFP(variance)]

\* The loop of fitScaler over the indices 0 .. upto-1: the three maps
RECURSIVE FitFrom(_, _, _)
FitFrom(vectors, maps, upto) ==
    IF upto = 0 THEN maps
    ELSE LET before == FitFrom(vectors, maps, upto - 1)
             index == upto - 1
             featureName == FeatureNameAt(vectors[1], index)
             stats == FeatureStats(ValuesAt(vectors, index))
         IN  [scale |-> MapPut(before.scale, featureName, [min |-> stats.min, max |-> stats.max]),
              mean |-> MapPut(before.mean, featureName, stats.mean),
              std |-> MapPut(before.std, featureName, stats.std)]

\* FeatureEngineer.fitScaler(vectors): the maps after the call
fitScaler(vectors, maps) ==
    LET len(i) == Len(vectors[i].features)
        longest == IF vectors = <<>> THEN 0 ELSE MaxSeq(Tabulate(Len(vectors), len))
    IN  FitFrom(vectors, maps, longest)

\* FeatureEngineer.normalizeMinMax(vector)
normalizeMinMax(vector, scaleMap) ==
    LET out(i) == LET value == vector.features[i]
                      featureName == FeatureNameAt(vector, i - 1)
                  IN  IF featureName \notin DOMAIN scaleMap THEN value
                      ELSE IF scaleMap[featureName].max = scaleMap[featureName].min THEN 0
                      ELSE RoundDiv((value - scaleMap[featureName].min) * Scale,
                                    scaleMap[featureName].max - scaleMap[featureName].min)
    IN  Tabulate(Len(vector.features), out)

\* FeatureEngineer.standardize(vector)
standardize(vector, meanMap, stdMap) ==
    LET out(i) == LET value == vector.features[i]
                      featureName == FeatureNameAt(vector, i - 1)
                      mean == IF featureName \in DOMAIN meanMap /\ meanMap[featureName] # 0
                              THEN meanMap[featureName] ELSE 0
                      std == IF featureName \in DOMAIN stdMap /\ stdMap[featureName] # 0
                             THEN stdMap[featureName] ELSE Scale
                  IN  IF std = 0 THEN 0 ELSE RoundDiv((value - mean) * Scale, std)
    IN  Tabulate(Len(vector.features), out)

-----------------------------------------------------------------------------
(* The model object: construction and the calls made on it *)

ModelTypes == {"classification", "regression", "clustering"}

\* The value of fittedOn when the object holds no fit made by train
NoDataset == "none"

\* The fields a constructor leaves; a field the class does not have is None
Constructed(type) ==
    IF type = "classification"
    THEN [isTrainedAndReady |-> FALSE, hyperparameters |-> KNNDefaultHyperparameters,
          trainingData |-> <<>>, locations |-> <<>>,
          coefficients |-> None, intercept |-> None, featureMeans |-> None, featureStds |-> None,
          numClusters |-> None, centroids |-> None, assignments |-> None]
    ELSE IF type = "regression"
    THEN [isTrainedAndReady |-> FALSE, hyperparameters |-> RegDefaultHyperparameters,
          trainingData |-> None, locations |-> None,
          coefficients |-> <<>>, intercept |-> 0, featureMeans |-> <<>>, featureStds |-> <<>>,
          numClusters |-> None, centroids |-> None, assignments |-> None]
    ELSE [isTrainedAndReady |-> FALSE, hyperparameters |-> KMDefaultHyperparameters,
          trainingData |-> None, locations |-> None,
          coefficients |-> None, intercept |-> None, featureMeans |-> None, featureStds |-> None,
          numClusters |-> KMDefaultK, centroids |-> <<>>, assignments |-> <<>>]

\* The model object as one record
Model ==
    [isTrainedAndReady |-> isTrainedAndReady, hyperparameters |-> hyperparameters,
     trainingData |-> trainingData, locations |-> locations,
     coefficients |-> coefficients, intercept |-> intercept,
     featureMeans |-> featureMeans, featureStds |-> featureStds,
     numClusters |-> numClusters, centroids |-> centroids, assignments |-> assignments]

\* predict of the model object m of class type
PredictOf(type, m, q, topK) ==
    IF type = "classification"
    THEN KNNPredict(m.isTrainedAndReady, m.trainingData, m.hyperparameters, q, topK)
    ELSE IF type = "regression"
    THEN RegPredict(m.isTrainedAndReady, m.coefficients, m.intercept, m.featureMeans, m.featureStds, q)
    ELSE KMPredict(m.isTrainedAndReady, m.centroids, q)

Init ==
    /\ modelType \in ModelTypes
    /\ isTrainedAndReady = Constructed(modelType).isTrainedAndReady
    /\ hyperparameters = Constructed(modelType).hyperparameters
    /\ trainingData = Constructed(modelType).trainingData
    /\ locations = Constructed(modelType).locations
    /\ coefficients = Constructed(modelType).coefficients
    /\ intercept = Constructed(modelType).intercept
    /\ featureMeans = Constructed(modelType).featureMeans
    /\ featureStds = Constructed(modelType).featureStds
    /\ numClusters = Constructed(modelType).numClusters
    /\ centroids = Constructed(modelType).centroids
    /\ assignments = Constructed(modelType).assignments
    /\ blob = None
    /\ encoded = None
    /\ everFitted = FALSE
    /\ fittedOn = NoDataset
    /\ call = [op |-> "new", arg |-> None, before |-> None]
    /\ lastPredict = None
    /\ featureScaleMap = <<>>
    /\ featureMeanMap = <<>>
    /\ featureStdMap = <<>>
    /\ feCall = None
    /\ dpCall = None
    /\ cache = None
    /\ clock = 0
    /\ rtCall = None

\* new KNNNextLocationModel() / new LinearRegressionOptimalStayModel() /
\* new KMeansClusteringModel(): a fresh object of the same class takes the
\* place of the model object; the blob held by the caller is kept
New ==
    /\ call.op # "new"
    /\ isTrainedAndReady' = Constructed(modelType).isTrainedAndReady
    /\ hyperparameters' = Constructed(modelType).hyperparameters
    /\ trainingData' = Constructed(modelType).trainingData
    /\ locations' = Constructed(modelType).locations
    /\ coefficients' = Constructed(modelType).coefficients
    /\ intercept' = Constructed(modelType).intercept
    /\ featureMeans' = Constructed(modelType).featureMeans
    /\ featureStds' = Constructed(modelType).featureStds
    /\ numClusters' = Constructed(modelType).numClusters
    /\ centroids' = Constructed(modelType).centroids
    /\ assignments' = Constructed(modelType).assignments
    /\ everFitted' = FALSE
    /\ fittedOn' = NoDataset
    /\ call' = [op |-> "new", arg |-> None, before |-> None]
    /\ lastPredict' = None
    /\ UNCHANGED <<modelType, blob, encoded, feVars, pipelineVars, serviceVars>>

\* model.hyperparameters = params: the public field is assigned by a
\* hyperparameter search before it trains
SetHyperparameters ==
    /\ \/ /\ modelType = "classification"
          /\ \E k \in KNNGridKs : hyperparameters' = [hyperparameters EXCEPT !.k = k]
       \/ /\ modelType = "regression"
          /\ hyperparameters' \in RegGrid
       \/ /\ modelType = "clustering"
          /\ hyperparameters' \in KMGrid
    /\ hyperparameters' # hyperparameters
    /\ call' = [op |-> "setHyperparameters", arg |-> None, before |-> None]
    /\ lastPredict' = None
    /\ UNCHANGED <<modelType, isTrainedAndReady, trainingData, locations, coefficients, intercept,
                   featureMeans, featureStds, numClusters, centroids, assignments,
                   blob, encoded, everFitted, fittedOn, feVars, pipelineVars, serviceVars>>

\* What train(data) leaves in the history; name is the data set's name
Trained(name, data) ==
    /\ call' = [op |-> "train", arg |-> name, before |-> fittedOn]
    /\ lastPredict' = None
    /\ everFitted' = (everFitted \/ data # <<>>)
    /\ fittedOn' = (IF data # <<>> THEN name ELSE fittedOn)
    /\ UNCHANGED <<modelType, blob, encoded, feVars, pipelineVars, serviceVars>>

\* What decode(blob) leaves in the history
Decoded ==
    /\ call' = [op |-> "decode", arg |-> None, before |-> [fresh |-> Model = Constructed(modelType)]]
    /\ lastPredict' = None
    /\ everFitted' = TRUE
    /\ fittedOn' = NoDataset
    /\ UNCHANGED <<modelType, blob, encoded, feVars, pipelineVars, serviceVars>>

\* Variant of KNNTrain that adds the new samples to the stored ones.  C6
\* does not hold of it.
KNNTrainAppending ==
    /\ modelType = "classification"
    /\ \E name \in KNNDatasetNames :
          /\ trainingData' = trainingData \o KNNDatasets[name]
          /\ locations' = KNNLocations(trainingData \o KNNDatasets[name])
          /\ isTrainedAndReady' = TRUE
          /\ Trained(name, KNNDatasets[name])
    /\ UNCHANGED <<hyperparameters, coefficients, intercept, featureMeans, featureStds,
                   numClusters, centroids, assignments>>

\* KNNNextLocationModel.train(data)
KNNTrain ==
    /\ modelType = "classification"
    /\ \E name \in KNNDatasetNames :
          /\ trainingData' = KNNDatasets[name]
          /\ locations' = KNNLocations(KNNDatasets[name])
          /\ isTrainedAndReady' = TRUE
          /\ Trained(name, KNNDatasets[name])
    /\ UNCHANGED <<hyperparameters, coefficients, intercept, featureMeans, featureStds,
                   numClusters, centroids, assignments>>

\* LinearRegressionOptimalStayModel.train(data)
LinearRegressionTrain ==
    /\ modelType = "regression"
    /\ \E name \in RegDatasetNames :
          /\ IF RegDatasets[name] = <<>>
             THEN UNCHANGED <<coefficients, intercept, featureMeans, featureStds, isTrainedAndReady>>
             ELSE LET fit == RegFitOf(name)
                  IN  /\ featureMeans' = fit.featureMeans
                      /\ featureStds' = fit.featureStds
                      /\ coefficients' = fit.coefficients
                      /\ intercept' = fit.intercept
                      /\ isTrainedAndReady' = TRUE
          /\ Trained(name, RegDatasets[name])
    /\ UNCHANGED <<hyperparameters, trainingData, locations, numClusters, centroids, assignments>>

\* KMeansClusteringModel.train(data)
KMeansTrain ==
    /\ modelType = "clustering"
    /\ \E name \in KMDatasetNames, draws \in RandomDraws :
          /\ numClusters' = (IF hyperparameters.k # 0 THEN hyperparameters.k ELSE KMDefaultK)
          /\ IF KMDatasets[name] = <<>>
             THEN UNCHANGED <<centroids, assignments, isTrainedAndReady>>
             ELSE LET fit == KMFitOf(name, hyperparameters, draws)
                  IN  /\ centroids' = fit.centroids
                      /\ assignments' = fit.assignments
                      /\ isTrainedAndReady' = TRUE
          /\ Trained(name, KMDatasets[name])
    /\ UNCHANGED <<hyperparameters, trainingData, locations, coefficients, intercept,
                   featureMeans, featureStds>>

\* A call that completes normally with the value v (no method of the three
\* classes has a throw statement)
Returned(v) == [completion |-> "return", value |-> v]

\* What a call of predict leaves in the history: the call; and this predict
\* becomes the remembered one, or is noted as the repetition (again) of the
\* remembered one if it has the same arguments, or the remembered one stays
Predicted(q, topK, result) ==
    /\ call' = [op |-> "predict", arg |-> None, before |-> None]
    /\ \/ lastPredict' = [query |-> q, topK |-> topK, result |-> Returned(result), again |-> None]
       \/ /\ lastPredict # None
          /\ IF lastPredict.query = q /\ lastPredict.topK = topK
             THEN lastPredict' = [lastPredict EXCEPT !.again = Returned(result)]
             ELSE lastPredict' = lastPredict
    /\ UNCHANGED <<blob, encoded, everFitted, fittedOn, feVars, pipelineVars, serviceVars>>

\* Variant of KNNPredictCall in which predict sorts the stored samples by
\* their distance to the query instead of a copy.  C5 does not hold of it.
KNNPredictCallSortingInPlace ==
    /\ modelType = "classification"
    /\ \E q \in Queries, topK \in TopKs :
          /\ Predicted(q, topK, KNNPredict(isTrainedAndReady, trainingData, hyperparameters, q, topK))
          /\ trainingData' = KNNNeighbors(trainingData, Len(trainingData), q)
    /\ UNCHANGED <<modelType, isTrainedAndReady, hyperparameters, locations, coefficients, intercept,
                   featureMeans, featureStds, numClusters, centroids, assignments>>

\* KNNNextLocationModel.predict(features, topK)
KNNPredictCall ==
    /\ modelType = "classification"
    /\ \E q \in Queries, topK \in TopKs :
          Predicted(q, topK, KNNPredict(isTrainedAndReady, trainingData, hyperparameters, q, topK))
    /\ UNCHANGED modelVars

\* LinearRegressionOptimalStayModel.predict(features)
LinearRegressionPredictCall ==
    /\ modelType = "regression"
    /\ \E q \in Queries :
          Predicted(q, None, RegPredict(isTrainedAndReady, coefficients, intercept,
                                        featureMeans, featureStds, q))
    /\ UNCHANGED modelVars

\* KMeansClusteringModel.predict(features)
KMeansPredictCall ==
    /\ modelType = "clustering"
    /\ \E q \in Queries : Predicted(q, None, KMPredict(isTrainedAndReady, centroids, q))
    /\ UNCHANGED modelVars

\* encode() of the three classes
Encode ==
    /\ blob' = (IF modelType = "classification" THEN KNNEncode(trainingData, locations, hyperparameters)
                ELSE IF modelType = "regression"
                THEN RegEncode(coefficients, intercept, featureMeans, featureStds)
                ELSE KMEncode(centroids, assignments, numClusters))
    /\ encoded' = Model
    /\ call' = [op |-> "encode", arg |-> None, before |-> None]
    /\ UNCHANGED <<modelVars, everFitted, fittedOn, lastPredict, feVars, pipelineVars, serviceVars>>

\* KNNNextLocationModel.decode(data)
KNNDecode ==
    /\ modelType = "classification"
    /\ blob # None
    /\ trainingData' = blob.trainingData
    /\ locations' = blob.locations
    /\ hyperparameters' = blob.hyperparameters
    /\ isTrainedAndReady' = TRUE
    /\ Decoded
    /\ UNCHANGED <<coefficients, intercept, featureMeans, featureStds,
                   numClusters, centroids, assignments>>

\* LinearRegressionOptimalStayModel.decode(data)
LinearRegressionDecode ==
    /\ modelType = "regression"
    /\ blob # None
    /\ coefficients' = blob.coefficients
    /\ intercept' = blob.intercept
    /\ featureMeans' = blob.featureMeans
    /\ featureStds' = blob.featureStds
    /\ isTrainedAndReady' = TRUE
    /\ Decoded
    /\ UNCHANGED <<hyperparameters, trainingData, locations, numClusters, centroids, assignments>>

\* KMeansClusteringModel.decode(data)
KMeansDecode ==
    /\ modelType = "clustering"
    /\ blob # None
    /\ centroids' = blob.centroids
    /\ assignments' = blob.assignments
    /\ numClusters' = blob.numClusters
    /\ isTrainedAndReady' = TRUE
    /\ Decoded
    /\ UNCHANGED <<hyperparameters, trainingData, locations, coefficients, intercept,
                   featureMeans, featureStds>>

-----------------------------------------------------------------------------
(* evaluate of the three classes.  The metrics are JavaScript numbers in     *)
(* fixed point; a division by zero gives NaN, Infinity or -Infinity.         *)

JSInfinity == [t |-> "Infinity", v |-> 0]

JSNegInfinity == [t |-> "-Infinity", v |-> 0]

IsNaN(a) == a.t \in {"NaN", "undefined"}

\* a / b for fixed-point operands, b >= 0 (too large operands are first
\* taken to whole units)
RECURSIVE FixDiv(_, _)
FixDiv(a, b) ==
    IF b > Scale * Scale THEN FixDiv(a \div Scale, b \div Scale)
    ELSE IF a < 0 THEN 0 - FixDiv(0 - a, b)
    ELSE (a \div b) * Scale + RoundDiv((a % b) * Scale, b)

\* The operator / of JavaScript
JSQuot(a, b) ==
    IF IsNaN(a) \/ IsNaN(b) THEN JSNaN
    ELSE IF IsNumber(a) /\ IsNumber(b)
    THEN IF b.v # 0 THEN JSNum(FixDiv(a.v, b.v))
         ELSE IF a.v = 0 THEN JSNaN
         ELSE IF a.v > 0 THEN JSInfinity ELSE JSNegInfinity
    ELSE IF IsNumber(a) THEN JSNum(0)
    ELSE IF IsNumber(b) THEN a
    ELSE JSNaN

\* The operator - of JavaScript
JSMinus(a, b) ==
    IF IsNaN(a) \/ IsNaN(b) THEN JSNaN
    ELSE IF IsNumber(a) /\ IsNumber(b) THEN JSNum(a.v - b.v)
    ELSE IF IsNumber(a) THEN (IF b = JSInfinity THEN JSNegInfinity ELSE JSInfinity)
    ELSE IF IsNumber(b) THEN a
    ELSE IF a = b THEN JSNaN ELSE a

\* The operator + of JavaScript
JSPlus(a, b) ==
    IF IsNaN(a) \/ IsNaN(b) THEN JSNaN
    ELSE IF IsNumber(a) /\ IsNumber(b) THEN JSNum(a.v + b.v)
    ELSE IF IsNumber(a) THEN b
    ELSE IF IsNumber(b) THEN a
    ELSE IF a = b THEN a ELSE JSNaN

\* a <= b for values that are not NaN
JSLeq(a, b) ==
    \/ a = JSNegInfinity
    \/ b = JSInfinity
    \/ IsNumber(a) /\ IsNumber(b) /\ a.v <= b.v

\* Math.min and Math.max of JavaScript
JSLeast(a, b) == IF IsNaN(a) \/ IsNaN(b) THEN JSNaN ELSE IF JSLeq(a, b) THEN a ELSE b

JSGreatest(a, b) == IF IsNaN(a) \/ IsNaN(b) THEN JSNaN ELSE IF JSLeq(a, b) THEN b ELSE a

\* Math.abs
JSAbs(a) == IF IsNumber(a) THEN JSNum(Abs(a.v)) ELSE IF IsNaN(a) THEN JSNaN ELSE JSInfinity

\* Math.pow(a, 2) (the operand taken to 1/100)
JSSquare(a) ==
    IF IsNumber(a) THEN JSNum(RoundDiv(RoundDiv(a.v, 10) * RoundDiv(a.v, 10), 10))
    ELSE IF IsNaN(a) THEN JSNaN ELSE JSInfinity

\* Math.sqrt of a value that is not negative (a large operand taken to 1/100)
JSSqrt(a) ==
    IF ~IsNumber(a) THEN a
    ELSE IF a.v > Scale * Scale THEN JSNum(10 * SqrtSearch(a.v * 10, 0, 46340))
    ELSE JSNum(SqrtFP(a.v))

\* reduce((sum, x) => sum + x, 0)
RECURSIVE JSTotal(_)
JSTotal(s) == IF s = <<>> THEN JSNum(0) ELSE JSPlus(JSTotal(SubSeq(s, 1, Len(s) - 1)), s[Len(s)])

\* A call that ends with an exception
Thrown(error) == [completion |-> "throw", value |-> error]

\* KNNNextLocationModel.evaluate(testData)
KNNEvaluate(ready, data, hp, testData) ==
    LET predicted(i) == LET pred == KNNPredict(ready, data, hp, testData[i].features, 1)
                        IN  IF Len(pred) > 0 THEN pred[1].topRecommendation.location ELSE "Unknown"
        correct == Cardinality({ i \in 1..Len(testData) : predicted(i) = testData[i].nextLocation })
        accuracy == JSQuot(JSNum(correct * Scale), JSNum(Len(testData) * Scale))
    IN  Returned([accuracy |-> accuracy, macroF1 |-> JSNum(0), trainingLoss |-> JSNum(0),
                  validationLoss |-> JSNum(0), overallPerformance |-> accuracy])

\* LinearRegressionOptimalStayModel.evaluate(testData)
RegEvaluate(ready, coefs, icpt, means, stds, testData) ==
    LET n == JSNum(Len(testData) * Scale)
        predOf(i) == RegPredict(ready, coefs, icpt, means, stds, testData[i].features).predictedStayDays
        pred == Tabulate(Len(testData), predOf)
        actualOf(i) == JSNum(testData[i].actualStayDays * Scale)
        actual == Tabulate(Len(testData), actualOf)
        absError(i) == JSAbs(JSMinus(pred[i], actual[i]))
        sqError(i) == JSSquare(JSMinus(pred[i], actual[i]))
        mae == JSQuot(JSTotal(Tabulate(Len(testData), absError)), n)
        mse == JSQuot(JSTotal(Tabulate(Len(testData), sqError)), n)
        mean == JSQuot(JSTotal(actual), n)
        totalOf(i) == JSSquare(JSMinus(actual[i], mean))
        resOf(i) == JSSquare(JSMinus(actual[i], pred[i]))
        ssTotal == JSTotal(Tabulate(Len(testData), totalOf))
        ssRes == JSTotal(Tabulate(Len(testData), resOf))
        r2Score == JSMinus(JSNum(Scale), JSQuot(ssRes, ssTotal))
        apeOf(i) == JSAbs(JSQuot(JSMinus(actual[i], pred[i]),
                                 IF actual[i].v # 0 THEN actual[i] ELSE JSNum(Scale)))
        mape == JSQuot(JSTotal(Tabulate(Len(testData), apeOf)), n)
    IN  Returned([mae |-> mae, mse |-> mse, rmse |-> JSSqrt(mse), r2Score |-> r2Score, mape |-> mape,
                  trainingLoss |-> mse, validationLoss |-> mse,
                  overallPerformance |-> JSGreatest(JSNum(0), r2Score)])

\* euclideanDistance(a, b) in fixed point (taken to 1/100)
KMDistanceFP(a, b) ==
    LET radicand == KMEuclideanDistance(a, b)
    IN  JSNum(10 * SqrtSearch((radicand.num * 10000) \div radicand.den, 0, 46340))

\* The silhouette of one sample in KMeansClusteringModel.evaluate
KMSilhouette(cents, assigns, sample) ==
    LET clusterId == MapGetOr0(assigns, sample.cowId)
        f == sample.features.features
        intraClusterDist == KMDistanceFP(f, cents[clusterId + 1].features)
        distTo(c) == IF c - 1 # clusterId THEN KMDistanceFP(f, cents[c].features) ELSE JSInfinity
        others == Tabulate(Len(cents), distTo)
        least[c \in 0..Len(cents)] == IF c = 0 THEN JSInfinity ELSE JSLeast(least[c - 1], others[c])
        minInterClusterDist == least[Len(cents)]
    IN  JSQuot(JSMinus(minInterClusterDist, intraClusterDist),
               JSGreatest(intraClusterDist, minInterClusterDist))

\* KMeansClusteringModel.evaluate(testData): reading centroid.features of a
\* cluster that has no centroid throws a TypeError
KMEvaluate(cents, assigns, testData) ==
    IF \E i \in 1..Len(testData) : MapGetOr0(assigns, testData[i].cowId) + 1 > Len(cents)
    THEN Thrown("TypeError")
    ELSE LET silhouette(i) == KMSilhouette(cents, assigns, testData[i])
             silhouetteSum == JSTotal(Tabulate(Len(testData), silhouette))
             silhouetteScore == JSQuot(silhouetteSum, JSNum(Len(testData) * Scale))
         IN  Returned([silhouetteScore |-> silhouetteScore, daviesBouldinIndex |-> JSNum(0),
                       inertia |-> JSNum(0), separability |-> JSGreatest(JSNum(0), silhouetteScore),
                       trainingLoss |-> JSNum(0), validationLoss |-> JSNum(0),
                       overallPerformance |-> JSGreatest(JSNum(0), silhouetteScore)])

\* What a call of evaluate leaves in the history; name is the name of the
\* held-out set
Evaluated(name, result) ==
    /\ call' = [op |-> "evaluate", arg |-> name, before |-> None, result |-> result]
    /\ UNCHANGED <<modelVars, blob, encoded, everFitted, fittedOn, lastPredict,
                   feVars, pipelineVars, serviceVars>>

\* KNNNextLocationModel.evaluate(testData)
KNNEvaluateCall ==
    /\ modelType = "classification"
    /\ \E name \in KNNDatasetNames :
          Evaluated(name, KNNEvaluate(isTrainedAndReady, trainingData, hyperparameters, KNNDatasets[name]))

\* LinearRegressionOptimalStayModel.evaluate(testData)
LinearRegressionEvaluateCall ==
    /\ modelType = "regression"
    /\ \E name \in RegDatasetNames :
          Evaluated(name, RegEvaluate(isTrainedAndReady, coefficients, intercept, featureMeans,
                                      featureStds, RegDatasets[name]))

\* KMeansClusteringModel.evaluate(testData)
KMeansEvaluateCall ==
    /\ modelType = "clustering"
    /\ \E name \in KMDatasetNames :
          Evaluated(name, KMEvaluate(centroids, assignments, KMDatasets[name]))

Next ==
    \/ New
    \/ SetHyperparameters
    \/ KNNTrain
    \/ LinearRegressionTrain
    \/ KMeansTrain
    \/ KNNPredictCall
    \/ LinearRegressionPredictCall
    \/ KMeansPredictCall
    \/ Encode
    \/ KNNDecode
    \/ LinearRegressionDecode
    \/ KMeansDecode

Spec == Init /\ [][Next]_vars

\* clusterMap of getClusters after the first upto entries of the
\* assignments: the cluster ids in the order they first appear, each with
\* the ids assigned to it
RECURSIVE KMClusterMap(_, _)
KMClusterMap(assigns, upto) ==
    IF upto = 0 THEN <<>>
    ELSE LET before == KMClusterMap(assigns, upto - 1)
             entry == assigns[upto]
             held == IF \E i \in 1..Len(before) : before[i].key = entry.value
                     THEN MapGetOr0(before, entry.value) ELSE <<>>
         IN  MapSet(before, entry.value, Append(held, entry.key))

\* KMeansClusteringModel.getClusters()
KMGetClusters(cents, assigns) ==
    LET clusterMap == KMClusterMap(assigns, Len(assigns))
        cluster(i) == LET clusterId == clusterMap[i].key
                          cowIds == clusterMap[i].value
                      IN  [id |-> clusterId, name |-> "Cluster " \o ToString(clusterId),
                           cowIds |-> cowIds, size |-> Len(cowIds),
                           centroid |-> IF clusterId < Len(cents) THEN [defined |-> cents[clusterId + 1]]
                                        ELSE IF Len(cents) > 0 THEN [defined |-> cents[1]]
                                        ELSE None]
    IN  Tabulate(Len(clusterMap), cluster)

\* KMeansClusteringModel.getClusters(): no field is written; the history
\* keeps the call it follows
KMeansGetClustersCall ==
    /\ modelType = "clustering"
    /\ call.op # "getClusters"
    /\ call' = [op |-> "getClusters", arg |-> None, before |-> [op |-> call.op, arg |-> call.arg],
                result |-> Returned(KMGetClusters(centroids, assignments))]
    /\ UNCHANGED <<modelVars, blob, encoded, everFitted, fittedOn, lastPredict,
                   feVars, pipelineVars, serviceVars>>

\* The evaluation of a model on a held-out set and the listing of its
\* clusters: evaluate and getClusters read the state that construction,
\* setHyperparameters and train write
NextEV ==
    \/ New
    \/ SetHyperparameters
    \/ KNNTrain
    \/ LinearRegressionTrain
    \/ KMeansTrain
    \/ KNNEvaluateCall
    \/ LinearRegressionEvaluateCall
    \/ KMeansEvaluateCall
    \/ KMeansGetClustersCall

SpecEV == Init /\ [][NextEV]_vars

-----------------------------------------------------------------------------
(* The FeatureEngineer object: construction and the calls made on it *)

\* new FeatureEngineer(); no model object is involved
InitFE ==
    /\ featureScaleMap = <<>>
    /\ featureMeanMap = <<>>
    /\ featureStdMap = <<>>
    /\ feCall = [op |-> "new", args |-> None, result |-> None]
    /\ modelType = "none"
    /\ isTrainedAndReady = None
    /\ hyperparameters = None
    /\ trainingData = None
    /\ locations = None
    /\ coefficients = None
    /\ intercept = None
    /\ featureMeans = None
    /\ featureStds = None
    /\ numClusters = None
    /\ centroids = None
    /\ assignments = None
    /\ blob = None
    /\ encoded = None
    /\ everFitted = FALSE
    /\ fittedOn = NoDataset
    /\ call = None
    /\ lastPredict = None
    /\ dpCall = None
    /\ cache = None
    /\ clock = 0
    /\ rtCall = None

\* The calls that build a feature vector
BuildOps == {"createMovementFeatureVector", "createInteractionFeatures", "createTimeSeriesFeatures"}

\* What a call leaves in the history
Called(op, args, result) ==
    /\ feCall' = [op |-> op, args |-> args, result |-> result]
    /\ UNCHANGED <<modelVars, historyVars, pipelineVars, serviceVars>>

FitScaler ==
    \E name \in CorpusNames :
       LET maps == fitScaler(Corpora[name], [scale |-> featureScaleMap, mean |-> featureMeanMap,
                                             std |-> featureStdMap])
       IN  /\ featureScaleMap' = maps.scale
           /\ featureMeanMap' = maps.mean
           /\ featureStdMap' = maps.std
           /\ Called("fitScaler", name, None)

NormalizeMinMax ==
    /\ \E vector \in TransformInputs :
          Called("normalizeMinMax", vector, normalizeMinMax(vector, featureScaleMap))
    /\ UNCHANGED <<featureScaleMap, featureMeanMap, featureStdMap>>

Standardize ==
    /\ \E vector \in TransformInputs :
          Called("standardize", vector, standardize(vector, featureMeanMap, featureStdMap))
    /\ UNCHANGED <<featureScaleMap, featureMeanMap, featureStdMap>>

CreateMovementFeatureVector ==
    /\ \E movement \in Movements, agg \in Aggregates :
          Called("createMovementFeatureVector", [movement |-> movement, aggregateFeatures |-> agg],
                 createMovementFeatureVector(movement, agg))
    /\ UNCHANGED <<featureScaleMap, featureMeanMap, featureStdMap>>

CreateInteractionFeatures ==
    /\ \E movement \in Movements, agg \in Aggregates :
          Called("createInteractionFeatures", [movement |-> movement, aggregateFeatures |-> agg],
                 createInteractionFeatures(movement, agg))
    /\ UNCHANGED <<featureScaleMap, featureMeanMap, featureStdMap>>

CreateTimeSeriesFeatures ==
    /\ \E movements \in Histories, agg \in Aggregates, lookbackWindow \in Lookbacks :
          LET done == createTimeSeriesFeatures(movements, agg, lookbackWindow)
          IN  Called("createTimeSeriesFeatures",
                     [movements |-> done.movements, aggregateFeatures |-> agg,
                      lookbackWindow |-> lookbackWindow, movementsBefore |-> movements],
                     done.vector)
    /\ UNCHANGED <<featureScaleMap, featureMeanMap, featureStdMap>>

\* MissingValueHandler.  A feature value is a JavaScript value in fixed
\* point: a number, NaN, null, undefined, Infinity or -Infinity.
JSNull == [t |-> "null", v |-> 0]

\* value !== null && value !== undefined && !isNaN(value) is false
IsMissing(value) == value.t \in {"null", "undefined", "NaN"}

\* A FeatureVector with two named features holding the values given
JV(id, values) ==
    [cowId |-> id, features |-> values, featureNames |-> <<"a", "b">>, normalizedFeatures |-> <<>>,
     timestamp |-> 0, metadata |-> [currentLocation |-> "", currentIdleDays |-> 0, isWarehouseNow |-> FALSE]]

\* The lists of vectors passed to the MissingValueHandler, by name: none;
\* without gaps; with gaps that follow one another in a slot and a slot that
\* is missing from the start; with infinite values
Batches ==
    [ MB_EMPTY |-> <<>>,
      MB_CLEAN |-> << JV("COW1", <<JSNum(Scale), JSNum(2 * Scale)>>),
                      JV("COW2", <<JSNum(3 * Scale), JSNum(4 * Scale)>>) >>,
      MB_GAPS  |-> << JV("COW1", <<JSNum(Scale), JSNaN>>),
                      JV("COW2", <<JSNull, JSUndefined>>),
                      JV("COW3", <<JSUndefined, JSNum(5 * Scale)>>),
                      JV("COW4", <<JSNum(0), JSNaN>>) >>,
      MB_INF   |-> << JV("COW1", <<JSInfinity, JSNum(Scale)>>),
                      JV("COW2", <<JSNum(2 * Scale), JSNegInfinity>>),
                      JV("COW3", <<JSNaN, JSNum(3 * Scale)>>) >> ]

BatchNames == DOMAIN Batches

\* array[index] of an array of feature values (index counted from 0)
ValueAt(values, index) == IF index < Len(values) THEN values[index + 1] ELSE JSUndefined

\* Variant of dropMissing that keeps a vector when some value of it is
\* present (some in place of every).  C23 as amended does not hold of it.
dropMissingWhenAllMissing(vectors) ==
    LET present(vector) == \E i \in 1..Len(vector.features) : ~IsMissing(vector.features[i])
    IN  SelectSeq(vectors, present)

\* MissingValueHandler.dropMissing(vectors)
dropMissing(vectors) ==
    LET complete(vector) == \A i \in 1..Len(vector.features) : ~IsMissing(vector.features[i])
    IN  SelectSeq(vectors, complete)

\* Variant of ForwardFilled that fills from the preceding vector as it was
\* passed in, not as it was filled.  C24 does not hold of it.
ForwardFilledFromInput(vectors, upto) ==
    LET filled(r) == LET fill(j) == IF r = 1 \/ ~IsMissing(vectors[r].features[j])
                                    THEN vectors[r].features[j]
                                    ELSE ValueAt(vectors[r - 1].features, j - 1)
                     IN  [vectors[r] EXCEPT !.features = Tabulate(Len(vectors[r].features), fill)]
    IN  Tabulate(upto, filled)

\* The array filled of forwardFill after the loop has passed the first upto
\* vectors
RECURSIVE ForwardFilled(_, _)
ForwardFilled(vectors, upto) ==
    IF upto <= 1 THEN SubSeq(vectors, 1, upto)
    ELSE LET before == ForwardFilled(vectors, upto - 1)
             previous == before[upto - 1]
             current == vectors[upto]
             fill(j) == IF ~IsMissing(current.features[j]) THEN current.features[j]
                        ELSE ValueAt(previous.features, j - 1)
         IN  Append(before, [current EXCEPT !.features = Tabulate(Len(current.features), fill)])

\* MissingValueHandler.forwardFill(vectors): the returned array, and the
\* caller's vectors as the call leaves them (filled is a copy of the array
\* that holds the caller's vector objects, whose features are assigned)
forwardFill(vectors) ==
    [result |-> ForwardFilled(vectors, Len(vectors)), vectors |-> ForwardFilled(vectors, Len(vectors))]

\* MissingValueHandler.fillWithMean(vectors)
fillWithMean(vectors) ==
    LET width == IF vectors = <<>> THEN 0 ELSE Len(vectors[1].features)
        column(i) == LET at(r) == ValueAt(vectors[r].features, i - 1)
                     IN  SelectSeq(Tabulate(Len(vectors), at), LAMBDA value : ~IsMissing(value))
        mean(i) == IF Len(column(i)) > 0
                   THEN JSQuot(JSTotal(column(i)), JSNum(Len(column(i)) * Scale))
                   ELSE JSNum(0)
        means == Tabulate(width, mean)
        filled(r) == LET fill(i) == IF ~IsMissing(vectors[r].features[i]) THEN vectors[r].features[i]
                                    ELSE ValueAt(means, i - 1)
                     IN  [vectors[r] EXCEPT !.features = Tabulate(Len(vectors[r].features), fill)]
    IN  Tabulate(Len(vectors), filled)

\* What a call leaves in the history when it is handed arrays or objects:
\* after is their content when the call has returned
CalledLeaving(op, args, result, after) ==
    /\ feCall' = [op |-> op, args |-> args, result |-> result, after |-> after]
    /\ UNCHANGED <<modelVars, historyVars, pipelineVars, serviceVars>>

\* The static methods of MissingValueHandler: no field of an object of the
\* FeatureEngineer is written
DropMissing ==
    /\ \E name \in BatchNames :
          CalledLeaving("dropMissing", name, dropMissing(Batches[name]), Batches[name])
    /\ UNCHANGED <<featureScaleMap, featureMeanMap, featureStdMap>>

ForwardFill ==
    /\ \E name \in BatchNames :
          CalledLeaving("forwardFill", name, forwardFill(Batches[name]).result,
                        forwardFill(Batches[name]).vectors)
    /\ UNCHANGED <<featureScaleMap, featureMeanMap, featureStdMap>>

FillWithMean ==
    /\ \E name \in BatchNames :
          CalledLeaving("fillWithMean", name, fillWithMean(Batches[name]), Batches[name])
    /\ UNCHANGED <<featureScaleMap, featureMeanMap, featureStdMap>>

\* The vectors passed to createPolynomialFeatures: built by the two
\* construction paths of a movement, and one with two named features
PolynomialInputs ==
    { createMovementFeatureVector(MV1, AG1), createMovementFeatureVector(MV2, AG0),
      createInteractionFeatures(MV3, AG1), NV(<<"a", "b">>, <<7, 1>>) }

\* Variant of createPolynomialFeatures that returns the squared terms in
\* place of the base features.  C25 does not hold of it.
createPolynomialFeaturesReplacing(vector) ==
    LET square(i) == RoundDiv(vector.features[i] * vector.features[i], Scale)
        name(i) == vector.featureNames[i] \o "_squared"
    IN  [vector EXCEPT !.features = Tabulate(Len(vector.features), square),
                       !.featureNames = Tabulate(Len(vector.featureNames), name)]

\* FeatureEngineer.createPolynomialFeatures(vector)
createPolynomialFeatures(vector) ==
    LET square(i) == RoundDiv(vector.features[i] * vector.features[i], Scale)
        name(i) == vector.featureNames[i] \o "_squared"
    IN  [vector EXCEPT !.features = @ \o Tabulate(Len(vector.features), square),
                       !.featureNames = @ \o Tabulate(Len(vector.featureNames), name)]

\* createPolynomialFeatures copies the two arrays of the vector it is
\* handed ([...vector.features]) and writes the copies only
CreatePolynomialFeatures ==
    /\ \E vector \in PolynomialInputs :
          CalledLeaving("createPolynomialFeatures", vector, createPolynomialFeatures(vector), vector)
    /\ UNCHANGED <<featureScaleMap, featureMeanMap, featureStdMap>>

\* OutlierDetector.detectByIQR is static and sorts a copy of values
\* ([...values]): no field of an object and no argument is written
DetectByIQR ==
    /\ \E values \in OutlierSamples, multiplier \in Multipliers :
          CalledLeaving("detectByIQR", [values |-> values, multiplier |-> multiplier],
                        detectByIQR(values, multiplier), values)
    /\ UNCHANGED <<featureScaleMap, featureMeanMap, featureStdMap>>

\* OutlierDetector.detectByZScore is static and only reads values
DetectByZScore ==
    /\ \E values \in OutlierSamples, threshold \in Thresholds :
          CalledLeaving("detectByZScore", [values |-> values, threshold |-> threshold],
                        detectByZScore(values, threshold), values)
    /\ UNCHANGED <<featureScaleMap, featureMeanMap, featureStdMap>>

NextFE ==
    \/ FitScaler
    \/ NormalizeMinMax
    \/ Standardize
    \/ CreateMovementFeatureVector
    \/ CreateInteractionFeatures
    \/ CreateTimeSeriesFeatures
    \/ DetectByIQR
    \/ DropMissing
    \/ ForwardFill
    \/ FillWithMean
    \/ CreatePolynomialFeatures
    \/ DetectByZScore

SpecFE == InitFE /\ [][NextFE]_vars

-----------------------------------------------------------------------------
(* DataPreparationPipeline.createTrainingDataset.  Its implementation is    *)
(* not among the sources; it is modelled from the specification's           *)
(* build_training_dataset.                                                  *)

\* Two movements of a second entity
MV4 == [MV2 EXCEPT !.cowId = "COW2", !.movedDateTime = 2, !.toLocation = "WH1"]

MV5 == [MV1 EXCEPT !.cowId = "COW2", !.movedDateTime = 4, !.toLocation = "SITE9"]

\* Longest movement list passed to the pipeline
MaxMovements == 4

\* The movement lists tried: every list of at most MaxMovements different
\* movements of the two entities, in any order
MovementLists ==
    LET all == {MV1, MV2, MV3, MV4, MV5}
    IN  { s \in UNION { [1..n -> all] : n \in 0..MaxMovements } :
            \A i, j \in 1..Len(s) : i # j => s[i] # s[j] }

\* The aggregate features of each entity (calculateCowAggregateFeatures)
AggregatesByCow == [COW1 |-> AG1, COW2 |-> AG0]

\* The entity ids of a movement list, in order of first occurrence
RECURSIVE EntityOrder(_)
EntityOrder(movements) ==
    IF movements = <<>> THEN <<>>
    ELSE LET init == EntityOrder(SubSeq(movements, 1, Len(movements) - 1))
             e == movements[Len(movements)].cowId
         IN  IF \E i \in 1..Len(init) : init[i] = e THEN init ELSE Append(init, e)

\* The movements of one entity, in chronological order
EntityHistory(movements, e) ==
    LET own(mv) == mv.cowId = e
    IN  SortByTime(SelectSeq(movements, own))

\* Variant of FollowedIndices that also leaves out the first movement.  C12
\* does not hold of it.
FollowedIndicesWithoutFirst(history) == 2..(Len(history) - 1)

\* The positions in an entity's history of the movements that have a
\* following movement
FollowedIndices(history) == 1..(Len(history) - 1)

\* The samples one entity contributes
EntitySamples(movements, e) ==
    LET history == EntityHistory(movements, e)
        agg == AggregatesByCow[e]
        vector(i) == createMovementFeatureVector(history[i], agg)
        followed == FollowedIndices(history)
        isFollowed(i) == i \in followed
        indices == SelectSeq([i \in 1..Len(history) |-> i], isFollowed)
        classification(j) ==
            [cowId |-> e, currentLocation |-> history[indices[j]].toLocation,
             currentIdleDays |-> history[indices[j]].idleDays, features |-> vector(indices[j]),
             nextLocation |-> history[indices[j] + 1].toLocation]
        regression(j) ==
            [cowId |-> e, toLocation |-> history[indices[j]].toLocation,
             features |-> vector(indices[j]), actualStayDays |-> history[indices[j]].idleDays]
    IN  [nextLocationSamples |-> TupleOf([j \in 1..Len(indices) |-> classification(j)], Len(indices)),
         optimalStaySamples |-> TupleOf([j \in 1..Len(indices) |-> regression(j)], Len(indices)),
         clusteringSamples |-> << [cowId |-> e, features |-> vector(Len(history)),
                                   movements |-> history, aggregateFeatures |-> agg] >>]

\* The samples of the first n entities of the list, entity after entity
RECURSIVE SamplesUpTo(_, _, _)
SamplesUpTo(movements, entities, n) ==
    IF n = 0
    THEN [nextLocationSamples |-> <<>>, optimalStaySamples |-> <<>>, clusteringSamples |-> <<>>]
    ELSE LET init == SamplesUpTo(movements, entities, n - 1)
             own == EntitySamples(movements, entities[n])
         IN  [nextLocationSamples |-> init.nextLocationSamples \o own.nextLocationSamples,
              optimalStaySamples |-> init.optimalStaySamples \o own.optimalStaySamples,
              clusteringSamples |-> init.clusteringSamples \o own.clusteringSamples]

\* DataPreparationPipeline.createTrainingDataset() for the movements given to
\* the constructor
createTrainingDataset(movements) ==
    SamplesUpTo(movements, EntityOrder(movements), Len(EntityOrder(movements)))

\* new DataPreparationPipeline(movements, locations); neither a model object
\* nor a FeatureEngineer nor a prediction service is involved
InitDP ==
    /\ dpCall = [op |-> "new", args |-> None, result |-> None]
    /\ featureScaleMap = <<>>
    /\ featureMeanMap = <<>>
    /\ featureStdMap = <<>>
    /\ feCall = None
    /\ modelType = "none"
    /\ isTrainedAndReady = None
    /\ hyperparameters = None
    /\ trainingData = None
    /\ locations = None
    /\ coefficients = None
    /\ intercept = None
    /\ featureMeans = None
    /\ featureStds = None
    /\ numClusters = None
    /\ centroids = None
    /\ assignments = None
    /\ blob = None
    /\ encoded = None
    /\ everFitted = FALSE
    /\ fittedOn = NoDataset
    /\ call = None
    /\ lastPredict = None
    /\ cache = None
    /\ clock = 0
    /\ rtCall = None

CreateTrainingDataset ==
    /\ \E movements \in MovementLists :
          dpCall' = [op |-> "createTrainingDataset", args |-> movements,
                     result |-> createTrainingDataset(movements)]
    /\ UNCHANGED <<modelVars, historyVars, feVars, serviceVars>>

NextDP == CreateTrainingDataset

SpecDP == InitDP /\ [][NextDP]_vars

-----------------------------------------------------------------------------
(* RealtimePredictionService and the MovementRecommendationEngine behind    *)
(* it.  Their implementations are not among the sources; they are modelled  *)
(* from the specification's recommend_one and its caching rule, with the    *)
(* call signature of the sources:                                           *)
(*   getRecommendation(cowId, features, currentLocation, currentIdleDays).  *)

\* The expiry of a memoized recommendation: 1 hour, in minutes
CacheTTL == 60

\* The time that passes between two calls, and the latest time reached
ClockStep == 30

MaxClock == 90

\* The requests tried: two that differ only in the current location and idle
\* days, one with another feature vector, one for another entity
Requests ==
    { [cowId |-> "COW1", features |-> FV("COW1", <<2, 1>>, "WH1", 2),
       currentLocation |-> "WH1", currentIdleDays |-> 2],
      [cowId |-> "COW1", features |-> FV("COW1", <<2, 1>>, "WH1", 2),
       currentLocation |-> "SITE2", currentIdleDays |-> 40],
      [cowId |-> "COW1", features |-> FV("COW1", <<3, 0>>, "WH1", 2),
       currentLocation |-> "WH1", currentIdleDays |-> 2],
      [cowId |-> "COW2", features |-> FV("COW1", <<2, 1>>, "WH1", 2),
       currentLocation |-> "WH1", currentIdleDays |-> 2] }

\* The content hash of a feature vector: a digest of its feature values
ContentHash(fv) == fv.features

\* The key of a memoized recommendation: (entity id, content hash)
CacheKey(request) == [cowId |-> request.cowId, hash |-> ContentHash(request.features)]

\* MovementRecommendationEngine.recommendMovement: the stay-duration model of
\* the engine (trained on RD_LINE) gives the estimated stay; the priority is
\* high if the current idle days exceed it
recommendMovement(request) ==
    LET fit == RegFitOf("RD_LINE")
        stay == RegPredict(TRUE, fit.coefficients, fit.intercept, fit.featureMeans,
                           fit.featureStds, request.features)
    IN  [cowId |-> request.cowId,
         currentLocation |-> request.currentLocation,
         currentIdleDays |-> request.currentIdleDays,
         estimatedStayDays |-> stay.predictedStayDays,
         priority |-> IF IsNumber(stay.predictedStayDays)
                            /\ request.currentIdleDays * Scale > stay.predictedStayDays.v
                      THEN "high" ELSE "low"]

\* The entry memoized under a key that has not expired, as a set (empty or
\* one entry)
LiveEntries(entries, key, now) ==
    { e \in entries : e.key = key /\ now - e.storedAt < CacheTTL }

\* new RealtimePredictionService(engine); no model object under training, no
\* FeatureEngineer and no pipeline is involved
InitRT ==
    /\ cache = {}
    /\ clock = 0
    /\ rtCall = [op |-> "new", args |-> None, result |-> None, hit |-> FALSE]
    /\ dpCall = None
    /\ featureScaleMap = <<>>
    /\ featureMeanMap = <<>>
    /\ featureStdMap = <<>>
    /\ feCall = None
    /\ modelType = "none"
    /\ isTrainedAndReady = None
    /\ hyperparameters = None
    /\ trainingData = None
    /\ locations = None
    /\ coefficients = None
    /\ intercept = None
    /\ featureMeans = None
    /\ featureStds = None
    /\ numClusters = None
    /\ centroids = None
    /\ assignments = None
    /\ blob = None
    /\ encoded = None
    /\ everFitted = FALSE
    /\ fittedOn = NoDataset
    /\ call = None
    /\ lastPredict = None

\* RealtimePredictionService.getRecommendation(cowId, features,
\* currentLocation, currentIdleDays)
GetRecommendation ==
    /\ \E request \in Requests :
          LET key == CacheKey(request)
              live == LiveEntries(cache, key, clock)
          IN  IF live # {}
              THEN /\ rtCall' = [op |-> "getRecommendation", args |-> request,
                                 result |-> (CHOOSE e \in live : TRUE).value, hit |-> TRUE]
                   /\ cache' = cache
              ELSE /\ rtCall' = [op |-> "getRecommendation", args |-> request,
                                 result |-> recommendMovement(request), hit |-> FALSE]
                   /\ cache' = { e \in cache : e.key # key }
                                  \cup { [key |-> key, value |-> recommendMovement(request),
                                          storedAt |-> clock] }
    /\ UNCHANGED <<modelVars, historyVars, feVars, pipelineVars, clock>>

\* RealtimePredictionService.clearCache()
ClearCache ==
    /\ cache # {}
    /\ cache' = {}
    /\ rtCall' = [op |-> "clearCache", args |-> None, result |-> None, hit |-> FALSE]
    /\ UNCHANGED <<modelVars, historyVars, feVars, pipelineVars, clock>>

\* Time passes between two calls
Tick ==
    /\ clock + ClockStep <= MaxClock
    /\ clock' = clock + ClockStep
    /\ UNCHANGED <<modelVars, historyVars, feVars, pipelineVars, cache, rtCall>>

NextRT ==
    \/ GetRecommendation
    \/ ClearCache
    \/ Tick

SpecRT == InitRT /\ [][NextRT]_vars

-----------------------------------------------------------------------------
(* Properties of the three models, checked under Spec *)

\* The data set a train call on a model of class type names
DatasetOf(type, name) ==
    IF type = "classification" THEN KNNDatasets[name]
    ELSE IF type = "regression" THEN RegDatasets[name]
    ELSE KMDatasets[name]

\* C1: for a ready regression model, every predict returns a predictedStayDays
\* p that is a number (never NaN) with 1 <= p <= 90, whatever the query vector
\* (any values, any length).
C1_StayDaysWithinClamp ==
    (modelType = "regression" /\ isTrainedAndReady /\ lastPredict # None) =>
        LET p == lastPredict.result.value.predictedStayDays
        IN  IsNumber(p) /\ MinStayDays * Scale <= p.v /\ p.v <= MaxStayDays * Scale

\* C2: isTrainedAndReady is false initially and becomes true only through a
\* train call with a non-empty data set or through decode of a blob that a
\* ready model encoded; train with an empty data set never makes a model
\* ready and predict never changes the flag.
C2_ReadyOnlyByTrainingOrRestore ==
    /\ ~isTrainedAndReady
    /\ [][ /\ (~isTrainedAndReady /\ isTrainedAndReady') =>
                \/ call'.op = "train" /\ DatasetOf(modelType, call'.arg) # <<>>
                \/ call'.op = "decode" /\ encoded.isTrainedAndReady
           /\ (call'.op = "train" /\ DatasetOf(modelType, call'.arg) = <<>>) =>
                (isTrainedAndReady' => isTrainedAndReady)
           /\ call'.op = "predict" => isTrainedAndReady' = isTrainedAndReady ]_vars

\* The model has never been trained on data nor restored by decode, or it is
\* a KNN model that holds no training samples
C3_Untrained == ~everFitted \/ (modelType = "classification" /\ trainingData = <<>>)

SquaredDistance(a, b) ==
    LET sq(i) == (a[i] - b[i]) * (a[i] - b[i])
    IN  SumSeq(Tabulate(Len(a), sq))

\* A ready KNN model with at least k samples has answered a predict whose
\* query has the length of every stored feature vector
C4_Applies ==
    /\ modelType = "classification"
    /\ isTrainedAndReady
    /\ lastPredict # None
    /\ Len(trainingData) >= hyperparameters.k
    /\ \A i \in 1..Len(trainingData) :
          Len(trainingData[i].features.features) = Len(lastPredict.query.features)

\* C4: for a KNN model trained on at least k samples, predict takes k samples
\* nearest to the query by Euclidean distance (a set N of k samples none of
\* which is farther than a sample outside N); every returned candidate is a
\* location voted by m >= 1 samples of N, with probability m/k and the
\* reasoning "m of k nearest neighbors moved to location"; the candidates are
\* the min(topK, number of voted locations) most voted, in non-increasing
\* order; topRecommendation is the first candidate.
C4_NearestNeighbourVote ==
    C4_Applies =>
        LET q == lastPredict.query
            k == hyperparameters.k
            n == Len(trainingData)
            r == lastPredict.result.value
            dist(i) == SquaredDistance(q.features, trainingData[i].features.features)
            votes(N, l) == Cardinality({ i \in N : trainingData[i].nextLocation = l })
            voted(N) == { trainingData[i].nextLocation : i \in N }
        IN  /\ Len(r) = 1
            /\ \E N \in SUBSET (1..n) :
                  /\ Cardinality(N) = k
                  /\ \A i \in N, j \in (1..n) \ N : dist(i) <= dist(j)
                  /\ LET p == r[1].predictions
                         returned == { p[i].location : i \in 1..Len(p) }
                     IN  /\ Len(p) = Min2(lastPredict.topK, Cardinality(voted(N)))
                         /\ Cardinality(returned) = Len(p)
                         /\ returned \subseteq voted(N)
                         /\ \A i \in 1..Len(p) :
                               /\ p[i].probability = [num |-> votes(N, p[i].location), den |-> k]
                               /\ p[i].reasoning =
                                     ToString(votes(N, p[i].location)) \o " of " \o ToString(k)
                                        \o " nearest neighbors moved to " \o p[i].location
                         /\ \A i, j \in 1..Len(p) :
                               i < j => votes(N, p[i].location) >= votes(N, p[j].location)
                         /\ \A l \in voted(N) \ returned, i \in 1..Len(p) :
                               votes(N, p[i].location) >= votes(N, l)
                         /\ r[1].topRecommendation =
                               [location |-> p[1].location, probability |-> p[1].probability,
                                rationale |-> p[1].reasoning]

\* C4 witness: k = 5 and five samples, three moved to A and two to B: the top
\* recommendation is A with probability 3/5 and "3 of 5" in its rationale
C4_Witness ==
    /\ C4_Applies
    /\ hyperparameters.k = 5
    /\ Len(trainingData) = 5
    /\ lastPredict.result.value[1].topRecommendation =
          [location |-> "A", probability |-> [num |-> 3, den |-> 5],
           rationale |-> "3 of 5 nearest neighbors moved to A"]

\* The result of predict that C5 compares: the cluster id for the k-means
\* model, the whole result for the others
C5_Compared(result) == IF modelType = "clustering" THEN result.value.clusterId ELSE result

\* C5: predict is a pure read: a predict that repeats the arguments of an
\* earlier one, with no train or decode in between, returns the identical
\* result (KNN, regression) or the same cluster id (k-means), and no predict
\* call changes any stored field of the model.
C5_PredictIsPureRead ==
    /\ [](lastPredict # None /\ lastPredict.again # None =>
             C5_Compared(lastPredict.again) = C5_Compared(lastPredict.result))
    /\ [][call'.op = "predict" => UNCHANGED modelVars]_vars

\* C5 witness: a KNN model holding samples has answered the same query twice
C5_Witness ==
    /\ modelType = "classification"
    /\ isTrainedAndReady
    /\ trainingData # <<>>
    /\ lastPredict # None
    /\ lastPredict.again # None

\* A KNN or regression model object after new, the assignment of the
\* hyperparameters hp and train on the (non-empty) data set of that name
FreshlyTrained(type, name, hp) ==
    IF type = "classification"
    THEN [Constructed(type) EXCEPT !.hyperparameters = hp, !.isTrainedAndReady = TRUE,
             !.trainingData = KNNDatasets[name], !.locations = KNNLocations(KNNDatasets[name])]
    ELSE [Constructed(type) EXCEPT !.hyperparameters = hp, !.isTrainedAndReady = TRUE,
             !.coefficients = RegFitOf(name).coefficients, !.intercept = RegFitOf(name).intercept,
             !.featureMeans = RegFitOf(name).featureMeans, !.featureStds = RegFitOf(name).featureStds]

\* The last call was a train on a non-empty data set D2 of a model that was
\* trained on a non-empty data set D1 before
C6_Retrained ==
    /\ call.op = "train"
    /\ DatasetOf(modelType, call.arg) # <<>>
    /\ call.before # NoDataset

\* C6: retraining fully replaces the prior state: after train(D1) and then
\* train(D2), D1 and D2 non-empty, a KNN or regression model returns for every
\* query the prediction of a fresh model (same hyperparameters) trained only
\* on D2, and the assignments of a k-means model hold exactly the entity ids
\* of D2.
C6_RetrainReplaces ==
    C6_Retrained =>
        IF modelType = "clustering"
        THEN { assignments[i].key : i \in 1..Len(assignments) }
                = { KMDatasets[call.arg][i].cowId : i \in 1..Len(KMDatasets[call.arg]) }
        ELSE \A q \in Queries, topK \in TopKs :
                PredictOf(modelType, Model, q, topK)
                   = PredictOf(modelType, FreshlyTrained(modelType, call.arg, hyperparameters), q, topK)

\* C6 witness: a model trained on one data set has been retrained on another
C6_Witness ==
    /\ C6_Retrained
    /\ call.before # call.arg
    /\ fittedOn = call.arg

\* The last call was a decode, into an object as constructed, of the blob
\* that a ready model encoded
C7_Restored ==
    /\ call.op = "decode"
    /\ call.before.fresh
    /\ encoded.isTrainedAndReady

\* C7: decoding the blob encoded by a trained model into a fresh instance
\* makes the instance ready without a train call, and for every query its
\* predict result equals that of the encoded model.
C7_DecodeRestoresPredictions ==
    C7_Restored =>
        /\ isTrainedAndReady
        /\ fittedOn = NoDataset
        /\ \A q \in Queries, topK \in TopKs :
              PredictOf(modelType, Model, q, topK) = PredictOf(modelType, encoded, q, topK)

\* C7 witness: a k-means model with centroids has been restored from a blob
C7_Witness ==
    /\ C7_Restored
    /\ modelType = "clustering"
    /\ Len(centroids) > 1

\* The length of the feature vectors a ready model holds (None if it holds
\* none)
TrainedLength ==
    IF modelType = "classification"
    THEN IF trainingData = <<>> THEN None ELSE [len |-> Len(trainingData[1].features.features)]
    ELSE IF modelType = "regression" THEN [len |-> Len(featureMeans)]
    ELSE IF centroids = <<>> THEN None ELSE [len |-> Len(centroids[1].features)]

\* C8: when the query vector's length differs from the length of the vectors
\* the model was trained on, predict raises an error; it never returns a
\* result computed from a truncated or padded vector.
C8_LengthMismatchRaises ==
    (/\ modelType \in ModelTypes
     /\ isTrainedAndReady
     /\ lastPredict # None
     /\ TrainedLength # None
     /\ TrainedLength # [len |-> Len(lastPredict.query.features)])
        => lastPredict.result.completion = "throw"

\* C14: evaluate on each of the three models never throws and never returns
\* NaN or Infinity because of a division by zero (empty held-out set,
\* regression labels that are all equal, a single centroid, a sample at
\* distance 0 from its centroids): every metric is a finite number.
\* (Checked under SpecEV.)
C14_EvaluateIsGuarded ==
    (modelType \in ModelTypes /\ call.op = "evaluate") =>
        /\ call.result.completion = "return"
        /\ \A metric \in DOMAIN call.result.value : IsNumber(call.result.value[metric])

\* C15: the blob every model's encode produces contains the model's
\* hyperparameters, and after decode of that blob into a fresh instance the
\* instance's hyperparameters equal those of the encoded model, also when
\* these are not the defaults.
C15_HyperparametersRoundTrip ==
    /\ blob # None =>
          /\ "hyperparameters" \in DOMAIN blob
          /\ blob.hyperparameters = encoded.hyperparameters
    /\ (call.op = "decode" /\ call.before.fresh) =>
          hyperparameters = encoded.hyperparameters

\* The centroid (numbered from 1) a sample with the features f belongs to:
\* one at minimal distance, the lowest index on ties
C18_NearestIndex(f, cents) ==
    CHOOSE c \in 1..Len(cents) :
        /\ \A d \in 1..Len(cents) :
              ~RatLess(KMEuclideanDistance(f, cents[d].features), KMEuclideanDistance(f, cents[c].features))
        /\ \A d \in 1..(c - 1) :
              RatLess(KMEuclideanDistance(f, cents[c].features), KMEuclideanDistance(f, cents[d].features))

\* The samples of data assigned to the centroid c
C18_Members(data, cents, c) ==
    { r \in 1..Len(data) : C18_NearestIndex(data[r].features.features, cents) = c }

\* mean is the component-wise mean of the feature vectors of the members
C18_IsMean(data, members, mean) ==
    /\ Len(mean) = Len(data[1].features.features)
    /\ \A i \in 1..Len(mean) :
          LET pick(r) == IF r \in members THEN data[r].features.features[i] ELSE 0
          IN  RatMul(mean[i], RatInt(Cardinality(members))) = RatInt(SumSeq(Tabulate(Len(data), pick)))

\* after holds the centroids and the assignments one iteration makes of the
\* centroids cents
C18_IsIteration(data, cents, after) ==
    /\ Len(after.centroids) = Len(cents)
    /\ \A r \in 1..Len(data) :
          MapGetOr0(after.assignments, data[r].cowId) + 1
             = C18_NearestIndex(data[r].features.features, cents)
    /\ \A c \in 1..Len(cents) :
          IF C18_Members(data, cents, c) = {}
          THEN after.centroids[c] = cents[c]
          ELSE /\ C18_IsMean(data, C18_Members(data, cents, c), after.centroids[c].features)
               /\ [after.centroids[c] EXCEPT !.features = cents[c].features] = cents[c]

\* The states that 1 .. passes iterations reach from the state st
RECURSIVE C18_Reached(_, _, _)
C18_Reached(data, st, passes) ==
    IF passes <= 0 THEN {}
    ELSE LET next == KMPass(data, st)
         IN  IF ~C18_IsIteration(data, st.centroids, next) THEN {}
             ELSE {next} \cup (IF next = st THEN {} ELSE C18_Reached(data, next, passes - 1))

\* The last call was a train of the k-means model on samples
C18_Fitted ==
    /\ modelType = "clustering"
    /\ call.op = "train"
    /\ KMDatasets[call.arg] # <<>>

\* C18: in every k-means training iteration each sample is assigned to a
\* centroid at minimal Euclidean distance from it (the lowest index on ties),
\* every centroid with at least one assigned member becomes the
\* component-wise mean of its members' feature vectors, and a centroid with
\* no members keeps its previous value; training performs at most
\* maxIterations such iterations and then stops.
C18_TrainingIterations ==
    C18_Fitted =>
        \E draws \in RandomDraws :
            [centroids |-> centroids, assignments |-> assignments]
               \in C18_Reached(KMDatasets[call.arg],
                               [centroids |-> KMInitialCentroids(KMDatasets[call.arg], numClusters, draws),
                                assignments |-> <<>>],
                               hyperparameters.maxIterations)

\* C18 witness: a training in which two centroids tie for a sample and one
\* centroid has no member
C18_Witness ==
    /\ C18_Fitted
    /\ \E c \in 1..Len(centroids) : C18_Members(KMDatasets[call.arg], centroids, c) = {}
    /\ \E r \in 1..Len(KMDatasets[call.arg]), c, d \in 1..Len(centroids) :
          /\ c # d
          /\ C18_NearestIndex(KMDatasets[call.arg][r].features.features, centroids) = c
          /\ KMEuclideanDistance(KMDatasets[call.arg][r].features.features, centroids[d].features)
                = KMEuclideanDistance(KMDatasets[call.arg][r].features.features, centroids[c].features)

\* C19: after a k-means model is trained on n >= k samples with distinct
\* entity ids, getClusters returns one entry for each of the k clusters; the
\* entries' member-id lists are pairwise disjoint and together contain every
\* training entity id exactly once, each entry's size equals the number of
\* its member ids, and its centroid is the centroid of that cluster.
\* (Checked under SpecEV.)
C19_OneEntryPerCluster ==
    (/\ modelType = "clustering"
     /\ call.op = "getClusters"
     /\ call.before.op = "train"
     /\ Len(KMDatasets[call.before.arg]) >= numClusters)
        => LET data == KMDatasets[call.before.arg]
               clusters == call.result.value
           IN  /\ Len(clusters) = numClusters
               /\ \A c \in 0..(numClusters - 1) : \E i \in 1..Len(clusters) : clusters[i].id = c
               /\ \A r \in 1..Len(data) :
                     Cardinality({ <<i, j>> \in (1..Len(clusters)) \X (1..Len(data)) :
                                      /\ j <= Len(clusters[i].cowIds)
                                      /\ clusters[i].cowIds[j] = data[r].cowId }) = 1
               /\ \A i \in 1..Len(clusters) :
                     /\ clusters[i].size = Len(clusters[i].cowIds)
                     /\ \A j \in 1..Len(clusters[i].cowIds) :
                           \E r \in 1..Len(data) : clusters[i].cowIds[j] = data[r].cowId
                     /\ clusters[i].centroid = [defined |-> centroids[clusters[i].id + 1]]

\* A ready stay-duration model has answered a predict with a clamped value
\* in [1, 90]
C20_Predicted ==
    /\ modelType = "regression"
    /\ isTrainedAndReady
    /\ lastPredict # None
    /\ IsNumber(lastPredict.result.value.predictedStayDays)
    /\ lastPredict.result.value.predictedStayDays.v >= MinStayDays * Scale
    /\ lastPredict.result.value.predictedStayDays.v <= MaxStayDays * Scale

\* C20 as stated: for every prediction of a ready stay-duration model with
\* clamped value p, the confidence interval is exactly p minus 20% to p plus
\* 20%: lower = 0.8*p and upper = 1.2*p, for every p in [1, 90].
C20_PlusMinusTwentyPercent ==
    C20_Predicted =>
        LET r == lastPredict.result.value
        IN  /\ r.confidenceInterval.lower = JSNum(RoundDiv(8 * r.predictedStayDays.v, 10))
            /\ r.confidenceInterval.upper = JSNum(RoundDiv(12 * r.predictedStayDays.v, 10))

\* C20 as amended: for every prediction of a ready stay-duration model with
\* clamped value p in [1, 90], the confidence interval is
\* lower = max(1, 0.8*p) and upper = 1.2*p.
C20_IntervalWithFloor ==
    C20_Predicted =>
        LET r == lastPredict.result.value
        IN  /\ r.confidenceInterval.lower = JSNum(Max2(Scale, RoundDiv(8 * r.predictedStayDays.v, 10)))
            /\ r.confidenceInterval.upper = JSNum(RoundDiv(12 * r.predictedStayDays.v, 10))

\* C20 witness: a prediction below 1.25 days, where 0.8*p is under one day,
\* and the model has also made one above
C20_Witness ==
    /\ C20_Predicted
    /\ call.op = "predict"
    /\ 8 * lastPredict.result.value.predictedStayDays.v < 10 * Scale
    /\ \E q \in Queries :
          LET other == PredictOf(modelType, Model, q, 1).predictedStayDays
          IN  IsNumber(other) /\ 8 * other.v > 10 * Scale

\* One step of gradient descent with the step size rate on the rows X and the
\* labels y, from the coefficients coefs
C21_Step(X, y, coefs, rate) ==
    LET pred(i) == LET term(j) == coefs[j] * X[i][j]
                   IN  RoundDiv(SumSeq(Tabulate(Len(coefs), term)), Scale)
        gradient(j) == LET term(i) == (pred(i) - y[i]) * X[i][j]
                       IN  RoundDiv(SumSeq(Tabulate(Len(X), term)), Scale)
        updated(j) == coefs[j] - RoundDiv(rate * gradient(j), Scale * Len(X))
    IN  Tabulate(Len(coefs), updated)

\* `steps` such steps
RECURSIVE C21_Descent(_, _, _, _, _)
C21_Descent(X, y, coefs, rate, steps) ==
    IF steps <= 0 THEN coefs
    ELSE IF steps = 1 THEN C21_Step(X, y, coefs, rate)
    ELSE CHOOSE result \in { C21_Descent(X, y, half, rate, steps - (steps \div 2)) :
                                half \in { C21_Descent(X, y, coefs, rate, steps \div 2) } } : TRUE

\* The rows (with the bias term) and the labels of the training set data,
\* normalised by the means and standard deviations the model holds
C21_Rows(data) ==
    LET row(r) == LET x(i) == RoundDiv((data[r].features.features[i] * Scale - featureMeans[i]) * Scale,
                                       featureStds[i])
                  IN  <<Scale>> \o Tabulate(Len(featureMeans), x)
    IN  Tabulate(Len(data), row)

C21_Labels(data) == LET label(r) == data[r].actualStayDays * Scale IN Tabulate(Len(data), label)

\* C21: training the stay-duration model runs gradient descent for exactly
\* hyperparameters.iterations steps with step size
\* hyperparameters.learningRate (defaults 100 and 0.01): the number of update
\* steps and the step size used by the fit are the values of these two
\* hyperparameters at the time train is called.
C21_FitUsesHyperparameters ==
    (/\ modelType = "regression"
     /\ call.op = "train"
     /\ RegDatasets[call.arg] # <<>>)
        => LET data == RegDatasets[call.arg]
               zero(j) == 0
           IN  coefficients = C21_Descent(C21_Rows(data), C21_Labels(data),
                                          Tabulate(Len(featureMeans) + 1, zero),
                                          hyperparameters.learningRate, hyperparameters.iterations)

\* The id of the entry of getClusters' result that lists the entity cowId
C27_RecordedCluster(clusters, cowId) ==
    (CHOOSE e \in { clusters[i] : i \in 1..Len(clusters) } :
        \E j \in 1..Len(e.cowIds) : e.cowIds[j] = cowId).id

\* C27: when k-means train completes, for any maxIterations >= 1, the
\* cluster recorded for each training entity (as reported by getClusters) is
\* the cluster that predict returns for that entity's training feature
\* vector: the recorded assignments are nearest-centroid assignments with
\* respect to the final centroids.  (Checked under SpecEV.)
C27_RecordedIsPredicted ==
    (/\ modelType = "clustering"
     /\ call.op = "getClusters"
     /\ call.before.op = "train"
     /\ KMDatasets[call.before.arg] # <<>>) =>
        LET data == KMDatasets[call.before.arg]
        IN  \A r \in 1..Len(data) :
               C27_RecordedCluster(call.result.value, data[r].cowId)
                  = KMPredict(isTrainedAndReady, centroids, data[r].features).clusterId

\* C28: for a KNN model trained on any number n >= 1 of samples, also
\* n < k, every returned candidate probability lies in (0, 1], and when topK
\* does not truncate the list of voted locations the returned probabilities
\* sum to exactly 1.
C28_ProbabilitiesSumToOne ==
    (/\ modelType = "classification"
     /\ isTrainedAndReady
     /\ Len(trainingData) >= 1
     /\ lastPredict # None) =>
        LET p == lastPredict.result.value[1].predictions
            voted == LocationKeys(KNNNeighbors(trainingData, hyperparameters.k, lastPredict.query))
            share(i) == Rat(p[i].probability.num, p[i].probability.den)
        IN  /\ \A i \in 1..Len(p) :
                  /\ RatLess(RatInt(0), share(i))
                  /\ ~RatLess(RatInt(1), share(i))
            /\ Len(voted) <= lastPredict.topK
                  => RatSum(Tabulate(Len(p), share)) = RatInt(1)

\* C30: every prediction returned by the KNN, the regression and the k-means
\* predict carries in cowId the query's cowId, whatever the query's metadata
\* contains.
C30_CowIdIsTheQuerys ==
    lastPredict # None =>
        LET value == lastPredict.result.value
        IN  IF modelType = "classification"
            THEN \A i \in 1..Len(value) : value[i].cowId = lastPredict.query.cowId
            ELSE value.cowId = lastPredict.query.cowId

-----------------------------------------------------------------------------
(* Properties of the FeatureEngineer, checked under SpecFE *)

\* The vectors the construction path of the last call builds from all the
\* movements, histories and aggregates (for createTimeSeriesFeatures: with
\* the lookback window of the last call)
SamePathVectors ==
    IF feCall.op = "createMovementFeatureVector"
    THEN { createMovementFeatureVector(m, a) : m \in Movements, a \in Aggregates }
    ELSE IF feCall.op = "createInteractionFeatures"
    THEN { createInteractionFeatures(m, a) : m \in Movements, a \in Aggregates }
    ELSE { createTimeSeriesFeatures(h, a, feCall.args.lookbackWindow).vector :
              h \in Histories, a \in Aggregates }

\* C9: two FeatureVectors built by the same construction path
\* (createMovementFeatureVector; createInteractionFeatures;
\* createTimeSeriesFeatures with the same lookback window) have the same
\* length and the same featureNames in the same order, whatever the movements
\* and aggregates, and each has exactly one name per feature.
C9_SamePathSameNames ==
    feCall.op \in BuildOps =>
        /\ Len(feCall.result.featureNames) = Len(feCall.result.features)
        /\ \A other \in SamePathVectors :
              /\ Len(other.features) = Len(feCall.result.features)
              /\ other.featureNames = feCall.result.featureNames

\* C10: after fitScaler, normalizeMinMax returns exactly 0 for a feature
\* whose fitted max equals its fitted min, and standardize returns exactly 0
\* for a feature whose fitted standard deviation is 0, for every input value
\* of that feature.
C10_ConstantFeatureMapsToZero ==
    feCall.op \in {"normalizeMinMax", "standardize"} =>
        \A i \in 1..Len(feCall.args.features) :
            LET featureName == FeatureNameAt(feCall.args, i - 1)
            IN  IF feCall.op = "normalizeMinMax"
                THEN (/\ featureName \in DOMAIN featureScaleMap
                      /\ featureScaleMap[featureName].max = featureScaleMap[featureName].min)
                         => feCall.result[i] = 0
                ELSE (/\ featureName \in DOMAIN featureStdMap
                      /\ featureStdMap[featureName] = 0)
                         => feCall.result[i] = 0

\* C11: after fitScaler(C), normalizeMinMax and standardize calls leave the
\* fitted statistics unchanged; and after a later fitScaler(C') the statistics
\* in use are exactly those computed from C' (no min/max, mean or std of a
\* feature name that occurs only in an earlier corpus is kept).
C11_RefitReplacesStatistics ==
    [][ /\ feCall'.op \in {"normalizeMinMax", "standardize"} =>
              UNCHANGED <<featureScaleMap, featureMeanMap, featureStdMap>>
        /\ feCall'.op = "fitScaler" =>
              [scale |-> featureScaleMap', mean |-> featureMeanMap', std |-> featureStdMap']
                 = fitScaler(Corpora[feCall'.args], [scale |-> <<>>, mean |-> <<>>, std |-> <<>>]) ]_vars

\* C16: with the default multiplier 1.5, detectByIQR flags a value that
\* stands far apart from the rest of a small sample: for the values
\* [1, 2, 3, 100] it returns [false, false, false, true].
C16_FarValueIsFlagged ==
    (/\ feCall.op = "detectByIQR"
     /\ feCall.args = [values |-> <<1, 2, 3, 100>>, multiplier |-> IQRDefaultMultiplier])
        => feCall.result = <<FALSE, FALSE, FALSE, TRUE>>

\* The values the vectors hold under the feature name, in order
RECURSIVE ValuesOfName(_, _)
ValuesOfName(vectors, featureName) ==
    IF vectors = <<>> THEN <<>>
    ELSE LET last == vectors[Len(vectors)]
             own == SelectSeq(Tabulate(Len(last.features), LAMBDA i : i),
                              LAMBDA i : FeatureNameAt(last, i - 1) = featureName)
         IN  ValuesOfName(SubSeq(vectors, 1, Len(vectors) - 1), featureName)
                \o Tabulate(Len(own), LAMBDA j : last.features[own[j]])

\* The feature names of a corpus
NamesOf(vectors) ==
    { FeatureNameAt(vectors[v], i - 1) : <<v, i>> \in
         { <<v, i>> \in (1..Len(vectors)) \X (1..MaxSeq(<<1>> \o Tabulate(Len(vectors), LAMBDA v : Len(vectors[v].features)))) :
              i <= Len(vectors[v].features) } }

\* C17: fitScaler groups the corpus values by feature name, not by position:
\* when a corpus vector lists the same feature names in a different order
\* than the first vector, each name's min, max, mean and std are still
\* computed only from the values that belong to that name.
C17_StatisticsByName ==
    feCall.op = "fitScaler" =>
        \A featureName \in NamesOf(Corpora[feCall.args]) :
            LET stats == FeatureStats(ValuesOfName(Corpora[feCall.args], featureName))
            IN  /\ featureName \in DOMAIN featureScaleMap
                /\ featureScaleMap[featureName] = [min |-> stats.min, max |-> stats.max]
                /\ featureMeanMap[featureName] = stats.mean
                /\ featureStdMap[featureName] = stats.std

\* The movement of the history that is the rank-th in chronological order
\* (the movements of a history have distinct times)
C22_Chronological(history, rank) ==
    CHOOSE i \in 1..Len(history) :
        Cardinality({ j \in 1..Len(history) : history[j].movedDateTime <= history[i].movedDateTime }) = rank

\* The name ends with the suffix _padded
C22_IsPaddedName(name, lookbackWindow) ==
    \E i \in 1..lookbackWindow, field \in {"idleDays", "isWarehouse"} :
        name = "prev_" \o ToString(i) \o "_" \o field \o "_padded"

\* C22: createTimeSeriesFeatures with lookback window N and a history of m
\* movements always returns exactly 2N features: the (idleDays, warehouse
\* flag) pairs of the last min(N, m) movements in chronological order,
\* followed by N - min(N, m) padding pairs (the entity's average idle days,
\* 0); a slot's feature name carries the _padded suffix if and only if the
\* slot is padding.
C22_WindowThenPadding ==
    feCall.op = "createTimeSeriesFeatures" =>
        LET N == feCall.args.lookbackWindow
            history == feCall.args.movementsBefore
            m == Len(history)
            taken == Min2(N, m)
            r == feCall.result
        IN  /\ Len(r.features) = 2 * N
            /\ Len(r.featureNames) = 2 * N
            /\ \A i \in 1..taken :
                  LET mov == history[C22_Chronological(history, m - taken + i)]
                  IN  /\ r.features[2 * i - 1] = mov.idleDays * Scale
                      /\ r.features[2 * i] = (IF mov.isWarehouse THEN Scale ELSE 0)
                      /\ ~C22_IsPaddedName(r.featureNames[2 * i - 1], N)
                      /\ ~C22_IsPaddedName(r.featureNames[2 * i], N)
            /\ \A i \in (taken + 1)..N :
                  /\ r.features[2 * i - 1] = feCall.args.aggregateFeatures.averageIdleDays * Scale
                  /\ r.features[2 * i] = 0
                  /\ C22_IsPaddedName(r.featureNames[2 * i - 1], N)
                  /\ C22_IsPaddedName(r.featureNames[2 * i], N)

\* C22 witness: a window of four over three movements given out of
\* chronological order: three pairs of movements and one padding pair
C22_Witness ==
    /\ feCall.op = "createTimeSeriesFeatures"
    /\ feCall.args.lookbackWindow = 4
    /\ Len(feCall.args.movementsBefore) = 3
    /\ feCall.args.movementsBefore # feCall.args.movements
    /\ feCall.args.aggregateFeatures.averageIdleDays > 0

\* A feature value that is a finite number
C23_IsFinite(value) == value.t = "number"

\* s is t without some of its elements, the others in the order of t
RECURSIVE C23_IsSubsequence(_, _)
C23_IsSubsequence(s, t) ==
    IF s = <<>> THEN TRUE
    ELSE IF t = <<>> THEN FALSE
    ELSE IF Head(s) = Head(t) THEN C23_IsSubsequence(Tail(s), Tail(t))
    ELSE C23_IsSubsequence(s, Tail(t))

\* The vectors dropMissing returned are vectors of its input in their order,
\* each unchanged
C23_KeepsOrder ==
    C23_IsSubsequence(feCall.result, Batches[feCall.args])

\* C23 as stated: dropMissing returns, in their original order, exactly the
\* input vectors all of whose feature values are finite numbers: a vector
\* containing NaN, null, undefined, +Infinity or -Infinity in any slot is
\* excluded, and every other vector is kept unchanged.
C23_KeepsFiniteVectors ==
    feCall.op = "dropMissing" =>
        /\ C23_KeepsOrder
        /\ \A r \in 1..Len(Batches[feCall.args]) :
              LET vector == Batches[feCall.args][r]
              IN  (\E i \in 1..Len(feCall.result) : feCall.result[i] = vector)
                     <=> (\A j \in 1..Len(vector.features) : C23_IsFinite(vector.features[j]))

\* C23 as amended: dropMissing returns, in their original order, exactly the
\* input vectors none of whose feature values is NaN, null or undefined: a
\* vector containing NaN, null or undefined in any slot is excluded, and
\* every other vector, also one holding +Infinity or -Infinity, is kept
\* unchanged.
C23_KeepsVectorsWithoutGaps ==
    feCall.op = "dropMissing" =>
        /\ C23_KeepsOrder
        /\ \A r \in 1..Len(Batches[feCall.args]) :
              LET vector == Batches[feCall.args][r]
              IN  (\E i \in 1..Len(feCall.result) : feCall.result[i] = vector)
                     <=> (\A j \in 1..Len(vector.features) :
                             vector.features[j] \notin {JSNaN, JSNull, JSUndefined})

\* C23 witness: dropMissing has excluded a vector with a gap and kept two
\* vectors that hold an infinite value
C23_Witness ==
    /\ feCall.op = "dropMissing"
    /\ Len(feCall.result) = 2
    /\ Len(Batches[feCall.args]) = 3
    /\ \A i \in 1..2 : \E j \in 1..2 : feCall.result[i].features[j] \in {JSInfinity, JSNegInfinity}

\* C24: forwardFill replaces each missing slot j of the vector at position
\* i >= 1 by the value the preceding vector holds in slot j after its own
\* fill, so that in the result slot j of vector i is still missing only if
\* slot j is missing in every input vector 0..i; values that are not missing
\* are never changed and the number and order of vectors is preserved.
C24_ForwardFillCarriesValues ==
    feCall.op = "forwardFill" =>
        LET input == Batches[feCall.args]
            result == feCall.result
        IN  /\ Len(result) = Len(input)
            /\ \A i \in 1..Len(input) :
                  /\ [result[i] EXCEPT !.features = input[i].features] = input[i]
                  /\ Len(result[i].features) = Len(input[i].features)
                  /\ \A j \in 1..Len(input[i].features) :
                        /\ ~IsMissing(input[i].features[j]) => result[i].features[j] = input[i].features[j]
                        /\ (i > 1 /\ IsMissing(input[i].features[j]))
                              => result[i].features[j] = result[i - 1].features[j]
                        /\ IsMissing(result[i].features[j])
                              => \A h \in 1..i : IsMissing(input[h].features[j])

\* C24 witness: a slot missing in two vectors in a row was filled in both,
\* and a slot that is missing from the first vector on stayed missing
C24_Witness ==
    /\ feCall.op = "forwardFill"
    /\ \E i \in 3..Len(feCall.result), j \in 1..2 :
          /\ IsMissing(Batches[feCall.args][i].features[j])
          /\ IsMissing(Batches[feCall.args][i - 1].features[j])
          /\ ~IsMissing(feCall.result[i].features[j])
    /\ \E i \in 2..Len(feCall.result), j \in 1..2 : IsMissing(feCall.result[i].features[j])

\* The names of the four products createInteractionFeatures appends
C25_ProductNames ==
    <<"idleDays_x_warehouse", "dayOfWeek_x_warehouse", "frequency_x_consistency", "idleVsAvg_x_recency">>

\* C25: createInteractionFeatures and createPolynomialFeatures are strictly
\* additive: the result starts with all base features and base feature
\* names, unchanged and in the same order; the interaction path appends
\* exactly 4 product features, and the polynomial path appends exactly one
\* squared term per base feature, named <name>_squared, in base order; the
\* input vector is not modified.
C25_ExpansionIsAdditive ==
    /\ feCall.op = "createInteractionFeatures" =>
          LET base == createMovementFeatureVector(feCall.args.movement, feCall.args.aggregateFeatures)
              r == feCall.result
              n == Len(base.features)
          IN  /\ Len(r.features) = n + 4
              /\ Len(r.featureNames) = Len(base.featureNames) + 4
              /\ SubSeq(r.features, 1, n) = base.features
              /\ SubSeq(r.featureNames, 1, Len(base.featureNames)) = base.featureNames
              /\ SubSeq(r.featureNames, Len(base.featureNames) + 1, Len(r.featureNames)) = C25_ProductNames
    /\ feCall.op = "createPolynomialFeatures" =>
          LET base == feCall.args
              r == feCall.result
              n == Len(base.features)
          IN  /\ Len(r.features) = 2 * n
              /\ Len(r.featureNames) = 2 * n
              /\ SubSeq(r.features, 1, n) = base.features
              /\ SubSeq(r.featureNames, 1, n) = base.featureNames
              /\ \A i \in 1..n :
                    /\ r.features[n + i] = RoundDiv(base.features[i] * base.features[i], Scale)
                    /\ r.featureNames[n + i] = base.featureNames[i] \o "_squared"
              /\ feCall.after = feCall.args

\* C25 witness: the polynomial expansion of a vector that the interaction
\* path has built
C25_Witness ==
    /\ feCall.op = "createPolynomialFeatures"
    /\ Len(feCall.args.features) = 21
    /\ feCall.result.featureNames[42] = "idleVsAvg_x_recency_squared"

\* The value at the position rank (counted from 1) of the values in
\* ascending order
C26_Ranked(values, rank) ==
    CHOOSE x \in { values[i] : i \in 1..Len(values) } :
        /\ Cardinality({ i \in 1..Len(values) : values[i] < x }) < rank
        /\ Cardinality({ i \in 1..Len(values) : values[i] <= x }) >= rank

\* value lies below Q1 - k * IQR or above Q3 + k * IQR, for the quartiles at
\* the positions floor(n / 4) and floor(3n / 4) of the sorted values and k in
\* units of 1/Scale
C26_OutsideIQR(values, k, value) ==
    LET q1 == C26_Ranked(values, (Len(values) \div 4) + 1)
        q3 == C26_Ranked(values, ((3 * Len(values)) \div 4) + 1)
    IN  \/ value * Scale < q1 * Scale - k * (q3 - q1)
        \/ value * Scale > q3 * Scale + k * (q3 - q1)

\* |value - mean| / std > threshold, std taken as 1 when it is 0; compared
\* as squares of exact fractions
C26_OutsideZScore(values, threshold, value) ==
    LET n == Len(values)
        mean == Rat(SumSeq(values), n)
        sq(i) == RatMul(RatSub(RatInt(values[i]), mean), RatSub(RatInt(values[i]), mean))
        variance == RatMul(RatSum(Tabulate(n, sq)), Rat(1, n))
        distance == RatMul(RatSub(RatInt(value), mean), RatSub(RatInt(value), mean))
    IN  RatLess(RatMul(RatInt(threshold * threshold), IF variance.num = 0 THEN RatInt(1) ELSE variance),
                distance)

C29_ArgumentsAreNotModified ==
    /\ feCall.op = "createTimeSeriesFeatures"
          => feCall.args.movements = feCall.args.movementsBefore
    /\ feCall.op \in {"fillWithMean", "forwardFill", "dropMissing"}
          => feCall.after = Batches[feCall.args]

-----------------------------------------------------------------------------
(* Properties of the DataPreparationPipeline, checked under SpecDP *)

\* The movements of entity e in a list, as a set
MovementsOf(movements, e) == { movements[i] : i \in { j \in 1..Len(movements) : movements[j].cowId = e } }

\* The movement of the same entity that follows mv in time (mv has one)
FollowingMovement(movements, mv) ==
    CHOOSE next \in MovementsOf(movements, mv.cowId) :
        /\ next.movedDateTime > mv.movedDateTime
        /\ \A other \in MovementsOf(movements, mv.cowId) :
              other.movedDateTime > mv.movedDateTime => other.movedDateTime >= next.movedDateTime

\* C12: in the training dataset built from a movement list, each entity with
\* m >= 1 movements contributes exactly m - 1 classification samples and
\* exactly m - 1 regression samples, one per movement that has a following
\* movement of the same entity, the classification sample labelled with the
\* location of that next movement, and exactly one clustering sample.
C12_SamplesPerEntity ==
    dpCall.op = "createTrainingDataset" =>
        LET movements == dpCall.args
            dataset == dpCall.result
            count(samples, e) == Cardinality({ i \in 1..Len(samples) : samples[i].cowId = e })
        IN  \A e \in { movements[i].cowId : i \in 1..Len(movements) } :
               LET m == Cardinality(MovementsOf(movements, e))
               IN  /\ count(dataset.nextLocationSamples, e) = m - 1
                   /\ count(dataset.optimalStaySamples, e) = m - 1
                   /\ count(dataset.clusteringSamples, e) = 1
                   /\ \A mv \in MovementsOf(movements, e) :
                         (\E later \in MovementsOf(movements, e) : later.movedDateTime > mv.movedDateTime) =>
                             /\ \E i \in 1..Len(dataset.nextLocationSamples) :
                                   /\ dataset.nextLocationSamples[i].cowId = e
                                   /\ dataset.nextLocationSamples[i].features.timestamp = mv.movedDateTime
                                   /\ dataset.nextLocationSamples[i].nextLocation
                                         = FollowingMovement(movements, mv).toLocation
                             /\ \E i \in 1..Len(dataset.optimalStaySamples) :
                                   /\ dataset.optimalStaySamples[i].cowId = e
                                   /\ dataset.optimalStaySamples[i].features.timestamp = mv.movedDateTime

\* C12 witness: a dataset built from three movements of one entity and one of
\* another: two classification samples and two clustering samples
C12_Witness ==
    /\ dpCall.op = "createTrainingDataset"
    /\ Len(dpCall.args) = 4
    /\ Cardinality(MovementsOf(dpCall.args, "COW1")) = 3
    /\ Len(dpCall.result.nextLocationSamples) = 2
    /\ Len(dpCall.result.clusteringSamples) = 2

-----------------------------------------------------------------------------
(* Properties of the RealtimePredictionService, checked under SpecRT *)

\* C13: for every sequence of recommendation requests and cache clears, a
\* recommendation served through the cache (keyed by entity id and
\* feature-vector content hash, expiring after 1 hour) equals the
\* recommendation the engine computes without the cache for the same entity
\* id, feature vector, current location and current idle days.
C13_CacheIsTransparent ==
    rtCall.op = "getRecommendation" => rtCall.result = recommendMovement(rtCall.args)

=============================================================================
